---- MODULE Spec2Model ----
(***************************************************************************)
(* A model of shasta_install_utility_common/products.py: the              *)
(* ProductCatalog (a snapshot of the product-catalog ConfigMap) and the    *)
(* operations that remove a product version's Docker images, Helm charts   *)
(* and hosted repositories and activate its group repositories.  Every     *)
(* public method is one action; its loops are RECURSIVE operators that     *)
(* thread the external system's state and the calls made through it.       *)
(***************************************************************************)
EXTENDS Naturals, Sequences, FiniteSets, TLC

VARIABLES
    self,                       \* ProductCatalog.name / .namespace
    k8sConfigMaps,              \* Kubernetes: (name, namespace) -> ConfigMap data
    products,                   \* ProductCatalog.products
    nexus_charts,               \* components listing fetched once in __init__
    helm_charts_deleted_nexus,  \* ProductCatalog.helm_charts_deleted_nexus
    environ,                    \* os.environ, the variables the gateway sets
    dockerRegistry,             \* image registry: the images present
    chartStore,                 \* chart registry: the component ids present
    nexusRepos,                 \* repository API: the repositories present
    faulty,                     \* which external calls answer with a non-404 HTTP error
    last,                       \* the last operation: arguments, calls made, output, exception
    prev,                       \* the operation before it
    nops                        \* operations run so far

vars == <<self, k8sConfigMaps, products, nexus_charts, helm_charts_deleted_nexus,
          environ, dockerRegistry, chartStore, nexusRepos, faulty, last, prev, nops>>

---------------------------------------------------------------------------
(* Bounds of the model.                                                    *)

MaxOps == 2        \* operations per behaviour
MaxImages == 2     \* length of a record's docker list
MaxCharts == 2     \* length of a record's helm list

---------------------------------------------------------------------------
(* constants.py                                                            *)

PRODUCT_CATALOG_CONFIG_MAP_NAME == "cray-product-catalog"
PRODUCT_CATALOG_CONFIG_MAP_NAMESPACE == "services"

\* Python's None where a string is expected (a version that is not set).
None == "None"

---------------------------------------------------------------------------
(* Sequence helpers.                                                       *)

SeqsUpTo(S, n) == UNION {[1..k -> S] : k \in 0..n}

Range(s) == {s[i] : i \in 1..Len(s)}

\* ", ".join(strs)
RECURSIVE Join(_, _)
Join(sep, strs) ==
    IF Len(strs) = 0 THEN ""
    ELSE IF Len(strs) = 1 THEN strs[1]
    ELSE strs[1] \o sep \o Join(sep, Tail(strs))

---------------------------------------------------------------------------
(* InstalledProductVersion: the record model.                              *)
(* A record is [name, version, valid, docker, legacy, helm, repos]:        *)
(*   docker  [kind: "absent" | "null" | "list", items]  component_versions.docker *)
(*   legacy  component_versions.get(name), None when the key is missing    *)
(*   helm    [kind: "absent" | "null" | "list", items]  component_versions.helm *)
(*   repos   [kind: "absent" | "list", items] component_versions.repositories *)
(*   valid   whether validate(data) accepts the data                       *)

str(p) == p.name \o "-" \o p.version

\* [str(p) for p in ps]
Strs(ps) == [i \in 1..Len(ps) |-> str(ps[i])]

is_valid(p) == p.valid

_deprecated_docker_image_version(p) == p.legacy

_deprecated_docker_image_name(p) == "cray/cray-" \o p.name

\* Mutant: a null 'docker' key is taken like a missing one.
DockerImagesNullIsLegacy(p) ==
    IF p.docker.kind \in {"absent", "null"}
    THEN << [name |-> "cray/cray-" \o p.name, version |-> p.legacy] >>
    ELSE [i \in 1..Len(p.docker.items) |->
            [name |-> p.docker.items[i].name, version |-> p.docker.items[i].version]]

docker_images(p) ==
    IF p.docker.kind = "absent"
    THEN << [name |-> _deprecated_docker_image_name(p),
             version |-> _deprecated_docker_image_version(p)] >>
    ELSE IF p.docker.kind = "null" THEN << >>
    ELSE [i \in 1..Len(p.docker.items) |->
            [name |-> p.docker.items[i].name, version |-> p.docker.items[i].version]]

helm_charts(p) ==
    IF p.helm.kind # "list" THEN << >>
    ELSE [i \in 1..Len(p.helm.items) |->
            [name |-> p.helm.items[i].name, version |-> p.helm.items[i].version]]

---------------------------------------------------------------------------
(* The record of an operation: what it was called with, the external calls *)
(* it made (in order, with each call's answer), what it printed and the    *)
(* exception it ended with ("" when it returned).                          *)

NoOp ==
    [op |-> "", name |-> "", version |-> "", calls |-> << >>, gateway |-> << >>,
     out |-> << >>, exc |-> ""]

Call(api, args, members, result) ==
    [api |-> api, args |-> args, members |-> members, result |-> result]

Notice(kind, subject, detail) == [kind |-> kind, subject |-> subject, detail |-> detail]

Started(op, name, version) == [NoOp EXCEPT !.op = op, !.name = name, !.version = version]

---------------------------------------------------------------------------
(* ProductCatalog.get_product                                              *)

\* Mutant: a product is matched by name alone.
MatchingProductsByName(prods, name, version) ==
    SelectSeq(prods, LAMBDA p : p.name = name)

MatchingProducts(prods, name, version) ==
    SelectSeq(prods, LAMBDA p : p.name = name /\ p.version = version)

get_product_exc(prods, name, version) ==
    IF Len(MatchingProducts(prods, name, version)) = 0 THEN "not_found"
    ELSE IF Len(MatchingProducts(prods, name, version)) > 1 THEN "multiple"
    ELSE ""

get_product(prods, name, version) == MatchingProducts(prods, name, version)[1]

---------------------------------------------------------------------------
(* uninstall_docker_image and ProductCatalog.remove_product_docker_images  *)

\* docker_api.delete_image: the registry's answer.
delete_image(img, registry) ==
    IF img \in faulty.docker THEN "error"
    ELSE IF img \in registry THEN "ok"
    ELSE "404"

\* Mutant: a 404 is raised like any other HTTP error.
UninstallDockerImageNo404(img, registry) ==
    LET answer == delete_image(img, registry)
    IN  [call |-> Call("docker.delete_image", <<img.name, img.version>>, << >>, answer),
         registry |-> IF answer = "ok" THEN registry \ {img} ELSE registry,
         out |-> << >>,
         raised |-> answer # "ok"]

\* [call, raised, registry, out]
uninstall_docker_image(img, registry) ==
    LET answer == delete_image(img, registry)
        short == img.name \o ":" \o img.version
    IN  [call |-> Call("docker.delete_image", <<img.name, img.version>>, << >>, answer),
         registry |-> IF answer = "ok" THEN registry \ {img} ELSE registry,
         out |-> IF answer = "ok" THEN << Notice("removed_image", short, "") >>
                 ELSE IF answer = "404" THEN << Notice("image_already_removed", short, "") >>
                 ELSE << >>,
         raised |-> answer = "error"]

\* Mutant: a record counts as another product only when its name differs.
OtherProductsByName(prods, product) ==
    SelectSeq(prods, LAMBDA p : p.name # product.name)

other_products(prods, product) ==
    SelectSeq(prods, LAMBDA p : p.version # product.version \/ p.name # product.name)

\* Mutant: an image is compared by name alone.
SameDockerImageByName(others, img) ==
    SelectSeq(others, LAMBDA p :
        \E j \in 1..Len(docker_images(p)) : docker_images(p)[j].name = img.name)

other_products_with_same_docker_image(others, img) ==
    SelectSeq(others, LAMBDA p :
        \E j \in 1..Len(docker_images(p)) :
            /\ docker_images(p)[j].name = img.name
            /\ docker_images(p)[j].version = img.version)

\* The loop over images_to_remove; acc is [calls, out, errors, registry].
RECURSIVE RemoveImagesLoop(_, _, _, _)
RemoveImagesLoop(images, others, i, acc) ==
    IF i > Len(images) THEN acc
    ELSE
        LET img == images[i]
            sharing == other_products_with_same_docker_image(others, img)
            short == img.name \o ":" \o img.version
            r == uninstall_docker_image(img, acc.registry)
        IN  IF Len(sharing) > 0
            THEN RemoveImagesLoop(images, others, i + 1,
                    [acc EXCEPT !.out = Append(@,
                        Notice("shared_image", short, Join(", ", Strs(sharing))))])
            ELSE RemoveImagesLoop(images, others, i + 1,
                    [calls |-> Append(acc.calls, r.call),
                     out |-> IF r.raised
                             THEN Append(acc.out, Notice("failed_image", short, ""))
                             ELSE acc.out \o r.out,
                     errors |-> acc.errors \/ r.raised,
                     registry |-> r.registry])

remove_product_docker_images(name, version) ==
    /\ nops < MaxOps
    /\ nops' = nops + 1
    /\ prev' = last
    /\ IF get_product_exc(products, name, version) # ""
       THEN /\ last' = [Started("remove_product_docker_images", name, version)
                            EXCEPT !.exc = get_product_exc(products, name, version)]
            /\ UNCHANGED dockerRegistry
       ELSE LET product == get_product(products, name, version)
                done == RemoveImagesLoop(docker_images(product),
                                         other_products(products, product), 1,
                                         [calls |-> << >>, out |-> << >>, errors |-> FALSE,
                                          registry |-> dockerRegistry])
            IN  /\ last' = [Started("remove_product_docker_images", name, version)
                                EXCEPT !.calls = done.calls, !.out = done.out,
                                       !.exc = IF done.errors THEN "aggregate" ELSE ""]
                /\ dockerRegistry' = done.registry
    /\ UNCHANGED <<self, k8sConfigMaps, products, nexus_charts, helm_charts_deleted_nexus,
                   environ, chartStore, nexusRepos, faulty>>

---------------------------------------------------------------------------
(* InstalledProductVersion.get_helm_chart_nexus_component_ids              *)

\* Mutant: a chart resolves to the first component with its name, whatever the version.
FirstComponentByName(chart, components) ==
    LET hits == {k \in 1..Len(components) : components[k].name = chart.name}
    IN  IF hits = {} THEN 0 ELSE CHOOSE k \in hits : \A m \in hits : k <= m

\* Mutant: a chart resolves to the last component with its name and version.
LastComponent(chart, components) ==
    LET hits == {k \in 1..Len(components) :
                    components[k].name = chart.name /\ components[k].version = chart.version}
    IN  IF hits = {} THEN 0 ELSE CHOOSE k \in hits : \A m \in hits : k >= m

\* The first component of the listing with this name and version, 0 if none.
FirstComponent(chart, components) ==
    LET hits == {k \in 1..Len(components) :
                    components[k].name = chart.name /\ components[k].version = chart.version}
    IN  IF hits = {} THEN 0 ELSE CHOOSE k \in hits : \A m \in hits : k <= m

RECURSIVE MatchCharts(_, _, _)
MatchCharts(charts, components, i) ==
    IF i > Len(charts) THEN << >>
    ELSE IF FirstComponent(charts[i], components) = 0
         THEN MatchCharts(charts, components, i + 1)
         ELSE << [name |-> charts[i].name, version |-> charts[i].version,
                  id |-> components[FirstComponent(charts[i], components)].id] >>
              \o MatchCharts(charts, components, i + 1)

\* None (no charts declared) is the empty list here: the caller tests "not k8s_charts".
get_helm_chart_nexus_component_ids(p) ==
    IF Len(helm_charts(p)) = 0 THEN << >> ELSE MatchCharts(helm_charts(p), nexus_charts, 1)

---------------------------------------------------------------------------
(* uninstall_nexus_helm_chart                                              *)

\* nexus_api.components.delete: the chart registry's answer.
components_delete(id, store) ==
    IF id \in faulty.charts THEN "error"
    ELSE IF id \in store THEN "ok"
    ELSE "404"

uninstall_nexus_helm_chart(chart, store) ==
    LET answer == components_delete(chart.id, store)
    IN  [call |-> Call("components.delete", <<chart.id>>, << >>, answer),
         store |-> IF answer = "ok" THEN store \ {chart.id} ELSE store,
         out |-> IF answer = "404"
                 THEN << Notice("chart_already_removed", chart.name \o ":" \o chart.version, "") >>
                 ELSE << >>,
         raised |-> answer = "error"]

---------------------------------------------------------------------------
(* uninstall_k8_helm_charts                                                *)

\* del product_charts[idx] for the first chart_dict whose name is `name`.
RemoveFirstNamed(product_charts, name) ==
    LET hits == {k \in 1..Len(product_charts) : product_charts[k].name = name}
        idx == CHOOSE k \in hits : \A m \in hits : k <= m
    IN  IF hits = {} THEN product_charts
        ELSE SubSeq(product_charts, 1, idx - 1)
             \o SubSeq(product_charts, idx + 1, Len(product_charts))

RECURSIVE DeleteFromLocal(_, _, _)
DeleteFromLocal(product_charts, charts_deleted_nexus, i) ==
    IF i > Len(charts_deleted_nexus) THEN product_charts
    ELSE DeleteFromLocal(RemoveFirstNamed(product_charts, charts_deleted_nexus[i].name),
                         charts_deleted_nexus, i + 1)

\* k8s_client.read_namespaced_config_map(name, namespace)
read_namespaced_config_map(name, namespace) ==
    IF faulty.k8s # "" THEN [exc |-> faulty.k8s, data |-> k8sConfigMaps[<<name, namespace>>]]
    ELSE [exc |-> "", data |-> k8sConfigMaps[<<name, namespace>>]]

\* The entries of one version of one product in ConfigMap data.
VersionEntries(data, product_name, product_version) ==
    SelectSeq(data.entries,
              LAMBDA e : e.name = product_name /\ e.version = product_version)

\* [exc, version_data, out, calls]: version_data is updated_config_map.data[name][version],
\* calls the read of the ConfigMap when the function got that far.
uninstall_k8_helm_charts(product_name, product_version, charts_deleted_nexus) ==
    LET config_map == read_namespaced_config_map(PRODUCT_CATALOG_CONFIG_MAP_NAME,
                                                 PRODUCT_CATALOG_CONFIG_MAP_NAMESPACE)
        found == VersionEntries(config_map.data, product_name, product_version)
        attempts == [i \in 1..Len(charts_deleted_nexus) |->
                        Notice("attempt_delete_chart",
                               charts_deleted_nexus[i].name \o ":"
                               \o charts_deleted_nexus[i].version \o ":"
                               \o charts_deleted_nexus[i].id, "")]
        read == << Call("read_namespaced_config_map",
                        <<PRODUCT_CATALOG_CONFIG_MAP_NAME, PRODUCT_CATALOG_CONFIG_MAP_NAMESPACE>>,
                        << >>, IF config_map.exc # "" THEN "error" ELSE "ok") >>
        fail(why) == [exc |-> why, version_data |-> << >>, out |-> << >>, calls |-> read]
    IN  IF Len(charts_deleted_nexus) = 0
        THEN [exc |-> "no_charts_to_delete", version_data |-> << >>, out |-> << >>,
              calls |-> << >>]
        ELSE IF config_map.exc # "" THEN fail("config_map_read_failed")
        ELSE IF config_map.data.kind = "none" THEN fail("no_data")
        ELSE IF ~ \E k \in 1..Len(config_map.data.entries) :
                        config_map.data.entries[k].name = product_name
             THEN fail("no_product_data")
        ELSE IF Len(found) = 0 \/ found[1].helm.kind = "absent" THEN fail("no_helm_charts")
        ELSE IF found[1].helm.kind = "null" THEN fail("TypeError")
        ELSE [exc |-> "",
              version_data |-> << [found[1] EXCEPT !.helm.items =
                                      DeleteFromLocal(@, charts_deleted_nexus, 1)] >>,
              out |-> attempts,
              calls |-> read]

---------------------------------------------------------------------------
(* The external mutation gateway: catalog_update / catalog_delete          *)

Unset == "<unset>"

EnvVars == {"PRODUCT", "PRODUCT_VERSION", "CONFIG_MAP", "CONFIG_MAP_NS",
            "SET_ACTIVE_VERSION", "VALIDATE_SCHEMA", "UPDATE_OVERWRITE", "YAML_CONTENT",
            "NEXUS_USERNAME", "NEXUS_PASSWORD"}

\* os.environ.update(d)
EnvUpdate(env, d) == [v \in EnvVars |-> IF v \in DOMAIN d THEN d[v] ELSE env[v]]

\* subprocess.check_output([exe]): the exit status of the executable.
check_output(exe) == IF faulty.gateway THEN 1 ELSE 0

\* Mutant: no exit status raises.
RaisesNever(exit) == FALSE

\* check_output raises CalledProcessError for a non-zero exit status.
raises(exit) == exit # 0

\* One run of an executable: what ran, the environment it saw, the file staged for
\* it by the operation, its exit status.
Invocation(exe, env, content, exit) ==
    [exe |-> exe, env |-> env, content |-> content, exit |-> exit]

\* The messages of the ProductInstallException raised for a failed run.
ErrorActivating(name, version) ==
    "Error activating " \o name \o "-" \o version \o " in product catalog"

ErrorRemoving(name, version) ==
    "Error removing " \o name \o "-" \o version \o " from product catalog"

UpdateProductDataEnv(name, version) ==
    [PRODUCT |-> name, PRODUCT_VERSION |-> version,
     CONFIG_MAP |-> self.name, CONFIG_MAP_NS |-> self.namespace,
     SET_ACTIVE_VERSION |-> "true", VALIDATE_SCHEMA |-> "true",
     UPDATE_OVERWRITE |-> "true", YAML_CONTENT |-> "temp_file"]

\* [env, invocation, exc, out]
update_product_data(env, name, version, updated_product_data) ==
    LET env2 == EnvUpdate(env, UpdateProductDataEnv(name, version))
        exit == check_output("catalog_update")
    IN  [env |-> env2,
         invocation |-> Invocation("catalog_update", env2,
                                   [kind |-> "version_data", data |-> updated_product_data],
                                   exit),
         exc |-> IF raises(exit) THEN ErrorActivating(name, version) ELSE "",
         out |-> IF raises(exit) THEN << >>
                 ELSE << Notice("updated_product_data", name \o "-" \o version, "") >>]

\* Mutant: the ConfigMap named to the executable is the one of constants.py.
ActivateEnvDefaultMap(name, version) ==
    [PRODUCT |-> name, PRODUCT_VERSION |-> version,
     CONFIG_MAP |-> PRODUCT_CATALOG_CONFIG_MAP_NAME,
     CONFIG_MAP_NS |-> PRODUCT_CATALOG_CONFIG_MAP_NAMESPACE,
     SET_ACTIVE_VERSION |-> "true", VALIDATE_SCHEMA |-> "true",
     YAML_CONTENT |-> "temporary_file"]

ActivateProductEntryEnv(name, version) ==
    [PRODUCT |-> name, PRODUCT_VERSION |-> version,
     CONFIG_MAP |-> self.name, CONFIG_MAP_NS |-> self.namespace,
     SET_ACTIVE_VERSION |-> "true", VALIDATE_SCHEMA |-> "true",
     YAML_CONTENT |-> "temporary_file"]

RemoveProductEntryEnv(name, version) ==
    [PRODUCT |-> name, PRODUCT_VERSION |-> version,
     CONFIG_MAP |-> self.name, CONFIG_MAP_NS |-> self.namespace,
     VALIDATE_SCHEMA |-> "true"]

\* ProductCatalog.activate_product_entry: stages {'active': True}, runs catalog_update.
activate_product_entry(name, version) ==
    LET env2 == EnvUpdate(environ, ActivateProductEntryEnv(name, version))
        exit == check_output("catalog_update")
    IN  /\ nops < MaxOps
        /\ nops' = nops + 1
        /\ prev' = last
        /\ environ' = env2
        /\ last' = [Started("activate_product_entry", name, version)
                        EXCEPT !.gateway = << Invocation("catalog_update", env2,
                                                         [kind |-> "active", data |-> TRUE],
                                                         exit) >>,
                               !.out = IF raises(exit) THEN << >>
                                       ELSE << Notice("set_active", name \o "-" \o version, "") >>,
                               !.exc = IF raises(exit) THEN ErrorActivating(name, version)
                                       ELSE ""]
        /\ UNCHANGED <<self, k8sConfigMaps, products, nexus_charts, helm_charts_deleted_nexus,
                       dockerRegistry, chartStore, nexusRepos, faulty>>

\* Mutant: removing the entry also drops the record from self.products.
RemoveProductEntryForgets(name, version) ==
    LET env2 == EnvUpdate(environ, RemoveProductEntryEnv(name, version))
        exit == check_output("catalog_delete")
    IN  /\ nops < MaxOps
        /\ nops' = nops + 1
        /\ prev' = last
        /\ environ' = env2
        /\ last' = [Started("remove_product_entry", name, version)
                        EXCEPT !.gateway = << Invocation("catalog_delete", env2,
                                                         [kind |-> "none"], exit) >>,
                               !.out = IF raises(exit) THEN << >>
                                       ELSE << Notice("deleted_entry", name \o "-" \o version, "") >>,
                               !.exc = IF raises(exit) THEN ErrorRemoving(name, version)
                                       ELSE ""]
        /\ products' = IF raises(exit) THEN products
                       ELSE SelectSeq(products,
                                LAMBDA p : ~ (p.name = name /\ p.version = version))
        /\ UNCHANGED <<self, k8sConfigMaps, nexus_charts, helm_charts_deleted_nexus,
                       dockerRegistry, chartStore, nexusRepos, faulty>>

\* ProductCatalog.remove_product_entry: runs catalog_delete, stages nothing.
remove_product_entry(name, version) ==
    LET env2 == EnvUpdate(environ, RemoveProductEntryEnv(name, version))
        exit == check_output("catalog_delete")
    IN  /\ nops < MaxOps
        /\ nops' = nops + 1
        /\ prev' = last
        /\ environ' = env2
        /\ last' = [Started("remove_product_entry", name, version)
                        EXCEPT !.gateway = << Invocation("catalog_delete", env2,
                                                         [kind |-> "none"], exit) >>,
                               !.out = IF raises(exit) THEN << >>
                                       ELSE << Notice("deleted_entry", name \o "-" \o version, "") >>,
                               !.exc = IF raises(exit) THEN ErrorRemoving(name, version)
                                       ELSE ""]
        /\ UNCHANGED <<self, k8sConfigMaps, products, nexus_charts, helm_charts_deleted_nexus,
                       dockerRegistry, chartStore, nexusRepos, faulty>>

\* ProductCatalog.update_product_data called as an operation of its own.
call_update_product_data(name, version, updated_product_data) ==
    LET upd == update_product_data(environ, name, version, updated_product_data)
    IN  /\ nops < MaxOps
        /\ nops' = nops + 1
        /\ prev' = last
        /\ environ' = upd.env
        /\ last' = [Started("update_product_data", name, version)
                        EXCEPT !.gateway = << upd.invocation >>,
                               !.out = upd.out,
                               !.exc = upd.exc]
        /\ UNCHANGED <<self, k8sConfigMaps, products, nexus_charts, helm_charts_deleted_nexus,
                       dockerRegistry, chartStore, nexusRepos, faulty>>

---------------------------------------------------------------------------
(* ProductCatalog.remove_helm_charts                                       *)

\* The loop over k8s_charts; acc is [calls, out, store, deleted].
RECURSIVE RemoveChartsLoop(_, _, _)
RemoveChartsLoop(k8s_charts, i, acc) ==
    IF i > Len(k8s_charts) THEN acc
    ELSE
        LET chart == k8s_charts[i]
            r == uninstall_nexus_helm_chart(chart, acc.store)
        IN  RemoveChartsLoop(k8s_charts, i + 1,
                [calls |-> Append(acc.calls, r.call),
                 out |-> IF r.raised
                         THEN Append(acc.out, Notice("failed_chart",
                                                     chart.name \o ":" \o chart.version, ""))
                         ELSE acc.out \o r.out,
                 store |-> r.store,
                 deleted |-> IF r.raised THEN acc.deleted ELSE Append(acc.deleted, chart)])

remove_helm_charts(name, version) ==
    /\ nops < MaxOps
    /\ nops' = nops + 1
    /\ prev' = last
    /\ IF get_product_exc(products, name, version) # ""
       THEN /\ last' = [Started("remove_helm_charts", name, version)
                            EXCEPT !.exc = get_product_exc(products, name, version)]
            /\ UNCHANGED <<chartStore, helm_charts_deleted_nexus, environ>>
       ELSE LET product == get_product(products, name, version)
                k8s_charts == get_helm_chart_nexus_component_ids(product)
                none_declared == IF Len(helm_charts(product)) = 0
                                 THEN << Notice("no_charts_in_configmap_data",
                                                name \o ":" \o version, "") >>
                                 ELSE << >>
                done == RemoveChartsLoop(k8s_charts, 1,
                            [calls |-> << >>, out |-> << >>, store |-> chartStore,
                             deleted |-> helm_charts_deleted_nexus])
                k8 == uninstall_k8_helm_charts(name, version, done.deleted)
                upd == update_product_data(environ, name, version, k8.version_data[1])
            IN  IF Len(k8s_charts) = 0
                THEN /\ last' = [Started("remove_helm_charts", name, version)
                                    EXCEPT !.out = Append(none_declared,
                                        Notice("no_charts_to_remove", name \o ":" \o version, ""))]
                     /\ UNCHANGED <<chartStore, helm_charts_deleted_nexus, environ>>
                ELSE /\ chartStore' = done.store
                     /\ helm_charts_deleted_nexus' = done.deleted
                     /\ IF k8.exc # ""
                        THEN /\ last' = [Started("remove_helm_charts", name, version)
                                            EXCEPT !.calls = done.calls \o k8.calls,
                                                   !.out = IF k8.exc = "TypeError" THEN done.out
                                                           ELSE Append(done.out,
                                                               Notice("failed_configmap", k8.exc, "")),
                                                   !.exc = k8.exc]
                             /\ UNCHANGED environ
                        ELSE /\ last' = [Started("remove_helm_charts", name, version)
                                            EXCEPT !.calls = done.calls \o k8.calls,
                                                   !.gateway = << upd.invocation >>,
                                                   !.out = done.out \o k8.out \o upd.out
                                                       \o (IF upd.exc # ""
                                                           THEN << Notice("failed_update", upd.exc, "") >>
                                                           ELSE << >>),
                                                   !.exc = upd.exc]
                             /\ environ' = upd.env
    /\ UNCHANGED <<self, k8sConfigMaps, products, nexus_charts, dockerRegistry,
                   nexusRepos, faulty>>

---------------------------------------------------------------------------
(* InstalledProductVersion: repositories                                   *)

\* [repo for repo in repositories if repo.get('type') == 'group']
group_repositories(p) == SelectSeq(p.repos.items, LAMBDA repo : repo.type = "group")

\* Mutant: only the repositories declared with type hosted.
HostedNamesDeclaredOnly(p) ==
    {p.repos.items[i].name : i \in {k \in 1..Len(p.repos.items) : p.repos.items[k].type = "hosted"}}

hosted_repository_names(p) ==
    {p.repos.items[i].name : i \in {k \in 1..Len(p.repos.items) : p.repos.items[k].type = "hosted"}}
    \cup UNION {Range(group_repositories(p)[i].members) : i \in 1..Len(group_repositories(p))}

\* Iterating "repositories" when the key is missing (None) is a TypeError.
repositories_exc(p) == IF p.repos.kind = "absent" THEN "TypeError" ELSE ""

---------------------------------------------------------------------------
(* The repository API (nexus_api.repos)                                    *)

\* Pairs (declared name, repository name) that the unescaped pattern ^name$
\* matches besides the name itself: "." in a name matches any character.
DotMatches == {<<"g.1", "g-1">>}

RegexMatches(name, repo_name) == repo_name = name \/ <<name, repo_name>> \in DotMatches

\* nexus_api.repos.list(regex='^name$')
repos_list(name, repos) == {r \in repos : RegexMatches(name, r.name)}

\* Mutant: a repository that is not found is made up as an empty group.
GetOrCreateRepoByName(name, repos) ==
    LET matching == {r \in repos : r.name = name}
        call == Call("repos.list", <<"^" \o name \o "$">>, << >>, "ok")
    IN  IF matching = {}
        THEN [call |-> call, exc |-> "",
              repo |-> << [name |-> name, type |-> "group", online |-> TRUE,
                           blobstore_name |-> "default",
                           strict_content_type_validation |-> FALSE, members |-> << >>] >>]
        ELSE [call |-> call, exc |-> "", repo |-> << CHOOSE r \in matching : TRUE >>]

\* [call, exc, repo]
_get_repo_by_name(name, repos) ==
    LET matching == repos_list(name, repos)
        failed == name \in faulty.repoList
        call == Call("repos.list", <<"^" \o name \o "$">>, << >>,
                     IF failed THEN "error" ELSE "ok")
    IN  IF failed THEN [call |-> call, exc |-> "repo_list_failed", repo |-> << >>]
        ELSE IF Cardinality(matching) > 1
             THEN [call |-> call, exc |-> "multiple_repos", repo |-> << >>]
        ELSE IF Cardinality(matching) = 0
             THEN [call |-> call, exc |-> "repo_not_found", repo |-> << >>]
        ELSE [call |-> call, exc |-> "", repo |-> << CHOOSE r \in matching : TRUE >>]

Flag(b) == IF b THEN "true" ELSE "false"

\* nexus_api.repos.raw_group.update: the API's answer.  A member that does not
\* exist is an HTTP 400 (the NOTE in activate_hosted_repos_in_group).
raw_group_update(group_repo, members, repos) ==
    IF group_repo.name \in faulty.repoUpdate THEN "error"
    ELSE IF group_repo.type # "group" THEN "error"
    ELSE IF \E i \in 1..Len(members) : ~ \E r \in repos : r.name = members[i] THEN "error"
    ELSE "ok"

\* nexus_api.repos.delete: the API's answer.
repos_delete(name, repos) ==
    IF name \in faulty.repoDelete THEN "error"
    ELSE IF \E r \in repos : r.name = name THEN "ok"
    ELSE "404"

---------------------------------------------------------------------------
(* InstalledProductVersion.activate_hosted_repos_in_group                  *)

\* Mutant: the declared members are appended to the group's current members.
MemberNamesMerged(group_repo_data, group_repo) ==
    group_repo.members \o group_repo_data.members

\* The member_names argument of raw_group.update for one declared group repository.
member_names(group_repo_data, group_repo) == group_repo_data.members

\* The loop over group_repositories; acc is [calls, out, errors, repos, exc].
\* _get_repo_by_name is called outside the try block: its exception leaves the loop.
RECURSIVE ActivateLoop(_, _, _)
ActivateLoop(groups, i, acc) ==
    IF i > Len(groups) THEN acc
    ELSE
        LET got == _get_repo_by_name(groups[i].name, acc.repos)
            group_repo == got.repo[1]
            members == member_names(groups[i], group_repo)
            answer == raw_group_update(group_repo, members, acc.repos)
            call == Call("raw_group.update",
                         <<group_repo.name, Flag(group_repo.online), group_repo.blobstore_name,
                           Flag(group_repo.strict_content_type_validation)>>,
                         members, answer)
        IN  IF got.exc # ""
            THEN [acc EXCEPT !.calls = Append(@, got.call), !.exc = got.exc]
            ELSE ActivateLoop(groups, i + 1,
                    [calls |-> acc.calls \o <<got.call, call>>,
                     out |-> Append(acc.out,
                                Notice(IF answer = "ok" THEN "updated_group" ELSE "failed_group",
                                       group_repo.name, Join(",", members))),
                     errors |-> acc.errors \/ answer # "ok",
                     repos |-> IF answer = "ok"
                               THEN (acc.repos \ {group_repo})
                                    \cup {[group_repo EXCEPT !.members = members]}
                               ELSE acc.repos,
                     exc |-> ""])

\* [calls, out, repos, exc]
activate_hosted_repos_in_group(p, repos) ==
    LET done == ActivateLoop(group_repositories(p), 1,
                    [calls |-> << >>, out |-> << >>, errors |-> FALSE, repos |-> repos,
                     exc |-> ""])
    IN  IF repositories_exc(p) # ""
        THEN [calls |-> << >>, out |-> << >>, repos |-> repos, exc |-> repositories_exc(p)]
        ELSE [calls |-> done.calls, out |-> done.out, repos |-> done.repos,
              exc |-> IF done.exc # "" THEN done.exc
                      ELSE IF done.errors THEN "aggregate" ELSE ""]

---------------------------------------------------------------------------
(* InstalledProductVersion.uninstall_hosted_repos                          *)

\* Mutant: a 404 from repos.delete is an error like any other.
DeleteFailedAlso404(answer) == answer # "ok"

\* Whether the answer of repos.delete sets errors: an HTTP error other than 404.
delete_failed(answer) == answer = "error"

\* Mutant: the loop ends at the first deletion that failed.
RECURSIVE UninstallLoopStops(_, _, _)
UninstallLoopStops(order, i, acc) ==
    IF i > Len(order) \/ acc.errors THEN acc
    ELSE
        LET answer == IF order[i] \in faulty.repoDelete THEN "error"
                      ELSE IF \E r \in acc.repos : r.name = order[i] THEN "ok" ELSE "404"
        IN  UninstallLoopStops(order, i + 1,
                [calls |-> Append(acc.calls, Call("repos.delete", <<order[i]>>, << >>, answer)),
                 out |-> acc.out,
                 errors |-> answer = "error",
                 repos |-> IF answer = "ok" THEN {r \in acc.repos : r.name # order[i]}
                           ELSE acc.repos])

\* Mutant: a deleted repository is also taken out of every group's member list.
RECURSIVE UninstallLoopPrunesGroups(_, _, _)
UninstallLoopPrunesGroups(order, i, acc) ==
    IF i > Len(order) THEN acc
    ELSE
        LET answer == repos_delete(order[i], acc.repos)
        IN  UninstallLoopPrunesGroups(order, i + 1,
                [calls |-> Append(acc.calls, Call("repos.delete", <<order[i]>>, << >>, answer)),
                 out |-> Append(acc.out,
                            Notice(IF answer = "ok" THEN "removed_repo"
                                   ELSE IF answer = "404" THEN "repo_already_removed"
                                   ELSE "failed_repo", order[i], "")),
                 errors |-> acc.errors \/ delete_failed(answer),
                 repos |-> IF answer = "ok"
                           THEN {[r EXCEPT !.members = SelectSeq(@, LAMBDA m : m # order[i])] :
                                    r \in {q \in acc.repos : q.name # order[i]}}
                           ELSE acc.repos])

\* The loop over hosted_repository_names, in the order the set is iterated.
RECURSIVE UninstallLoop(_, _, _)
UninstallLoop(order, i, acc) ==
    IF i > Len(order) THEN acc
    ELSE
        LET answer == repos_delete(order[i], acc.repos)
        IN  UninstallLoop(order, i + 1,
                [calls |-> Append(acc.calls, Call("repos.delete", <<order[i]>>, << >>, answer)),
                 out |-> Append(acc.out,
                            Notice(IF answer = "ok" THEN "removed_repo"
                                   ELSE IF answer = "404" THEN "repo_already_removed"
                                   ELSE "failed_repo", order[i], "")),
                 errors |-> acc.errors \/ delete_failed(answer),
                 repos |-> IF answer = "ok" THEN {r \in acc.repos : r.name # order[i]}
                           ELSE acc.repos])

\* The orders in which a set can be iterated.
Orders(S) == {o \in [1..Cardinality(S) -> S] : Range(o) = S}

uninstall_hosted_repos(p, order, repos) ==
    LET done == UninstallLoop(order, 1,
                    [calls |-> << >>, out |-> << >>, errors |-> FALSE, repos |-> repos])
    IN  [calls |-> done.calls, out |-> done.out, repos |-> done.repos,
         exc |-> IF done.errors THEN "aggregate" ELSE ""]

---------------------------------------------------------------------------
(* ProductCatalog.activate_product_hosted_repos / uninstall_product_hosted_repos *)

activate_product_hosted_repos(name, version) ==
    /\ nops < MaxOps
    /\ nops' = nops + 1
    /\ prev' = last
    /\ IF get_product_exc(products, name, version) # ""
       THEN /\ last' = [Started("activate_product_hosted_repos", name, version)
                            EXCEPT !.exc = get_product_exc(products, name, version)]
            /\ UNCHANGED nexusRepos
       ELSE LET r == activate_hosted_repos_in_group(get_product(products, name, version),
                                                    nexusRepos)
            IN  /\ last' = [Started("activate_product_hosted_repos", name, version)
                                EXCEPT !.calls = r.calls, !.out = r.out, !.exc = r.exc]
                /\ nexusRepos' = r.repos
    /\ UNCHANGED <<self, k8sConfigMaps, products, nexus_charts, helm_charts_deleted_nexus,
                   environ, dockerRegistry, chartStore, faulty>>

uninstall_product_hosted_repos(name, version) ==
    /\ nops < MaxOps
    /\ nops' = nops + 1
    /\ prev' = last
    /\ IF get_product_exc(products, name, version) # ""
       THEN /\ last' = [Started("uninstall_product_hosted_repos", name, version)
                            EXCEPT !.exc = get_product_exc(products, name, version)]
            /\ UNCHANGED nexusRepos
       ELSE IF repositories_exc(get_product(products, name, version)) # ""
       THEN /\ last' = [Started("uninstall_product_hosted_repos", name, version)
                            EXCEPT !.exc = repositories_exc(get_product(products, name, version))]
            /\ UNCHANGED nexusRepos
       ELSE \E order \in Orders(hosted_repository_names(get_product(products, name, version))) :
                LET r == uninstall_hosted_repos(get_product(products, name, version),
                                                order, nexusRepos)
                IN  /\ last' = [Started("uninstall_product_hosted_repos", name, version)
                                    EXCEPT !.calls = r.calls, !.out = r.out, !.exc = r.exc]
                    /\ nexusRepos' = r.repos
    /\ UNCHANGED <<self, k8sConfigMaps, products, nexus_charts, helm_charts_deleted_nexus,
                   environ, dockerRegistry, chartStore, faulty>>

---------------------------------------------------------------------------
(* ProductCatalog.__init__: the state after construction.                  *)

Rec(name, version, docker, legacy, helm, repos, valid) ==
    [name |-> name, version |-> version, docker |-> docker, legacy |-> legacy,
     helm |-> helm, repos |-> repos, valid |-> valid]

Absent == [kind |-> "absent", items |-> << >>]
Null == [kind |-> "null", items |-> << >>]
List(items) == [kind |-> "list", items |-> items]

Image(name, version) == [name |-> name, version |-> version]
Chart(name, version) == [name |-> name, version |-> version]
Component(name, version, id) == [name |-> name, version |-> version, id |-> id]
HostedRepo(name) == [name |-> name, type |-> "hosted", members |-> << >>]
GroupRepo(name, members) == [name |-> name, type |-> "group", members |-> members]
RepoEntry(name, type, online, members) ==
    [name |-> name, type |-> type, online |-> online, blobstore_name |-> "default",
     strict_content_type_validation |-> ~online, members |-> members]

\* self.products: one record per (product, version) of the data, the valid ones kept.
LoadProducts(data) == SelectSeq(data.entries, is_valid)

ConfigMapIds ==
    {<<PRODUCT_CATALOG_CONFIG_MAP_NAME, PRODUCT_CATALOG_CONFIG_MAP_NAMESPACE>>,
     <<"mock-name", "mock-namespace">>}

NoFaults ==
    [docker |-> {}, charts |-> {}, repoList |-> {}, repoUpdate |-> {}, repoDelete |-> {},
     k8s |-> "", gateway |-> FALSE, kubeconfig |-> FALSE, secret |-> FALSE,
     components |-> FALSE]

\* The state a constructed ProductCatalog is in: it was built from the ConfigMap
\* `id`, whose data is `entries`; every other ConfigMap holds `elsewhere`.
Constructed(id, entries, elsewhere, charts) ==
    /\ self = [name |-> id[1], namespace |-> id[2]]
    /\ k8sConfigMaps = [i \in ConfigMapIds |->
            IF i = id THEN [kind |-> "map", entries |-> entries] ELSE elsewhere]
    /\ products = LoadProducts([kind |-> "map", entries |-> entries])
    /\ nexus_charts = charts
    /\ helm_charts_deleted_nexus = << >>
    /\ environ = [v \in EnvVars |-> Unset]
    /\ last = NoOp
    /\ prev = NoOp
    /\ nops = 0

DefaultId == <<PRODUCT_CATALOG_CONFIG_MAP_NAME, PRODUCT_CATALOG_CONFIG_MAP_NAMESPACE>>

NoData == [kind |-> "none", entries |-> << >>]

\* The (name, version) pairs the operations are called with; the last is never loaded.
Targets == {<<"sat", "1">>, <<"sat", "2">>, <<"cos", "1">>, <<"cos", "2">>}

---------------------------------------------------------------------------
(* Docker images: catalogs that differ in their docker lists.              *)

ImageUniverse == {Image("cray/cray-sat", "1"), Image("a", "1")}

DockerChoices == {Absent, Null} \cup {List(s) : s \in SeqsUpTo(ImageUniverse, MaxImages)}

ImageCatalogs ==
    {<< Rec("sat", "1", d1, l1, Absent, List(<< >>), TRUE),
        Rec("sat", "2", d2, None, Absent, List(<< >>), TRUE),
        Rec("cos", "1", d3, "1", Absent, List(<< >>), TRUE) >> :
        d1 \in DockerChoices, l1 \in {None, "1"}, d2 \in DockerChoices,
        d3 \in {Null} \cup {List(s) : s \in SeqsUpTo(ImageUniverse, 1)}}

InitImages ==
    /\ \E entries \in ImageCatalogs : Constructed(DefaultId, entries, NoData, << >>)
    /\ dockerRegistry \in {ImageUniverse \cup {Image("cray/cray-sat", None)},
                           {Image("cray/cray-sat", "1")}}
    /\ chartStore = {}
    /\ nexusRepos = {}
    /\ \E bad \in SUBSET ImageUniverse : faulty = [NoFaults EXCEPT !.docker = bad]

NextImages == \E t \in Targets : remove_product_docker_images(t[1], t[2])

SpecImages == InitImages /\ [][NextImages]_vars

---------------------------------------------------------------------------
(* Claims about remove_product_docker_images.                              *)

RanOnLoaded(op) ==
    /\ last.op = op
    /\ get_product_exc(products, last.name, last.version) = ""

Target == get_product(products, last.name, last.version)

Declares(p, img) == \E j \in 1..Len(docker_images(p)) : docker_images(p)[j] = img

\* The records other than the target that declare img, in record-set order.
OtherOwners(img) ==
    SelectSeq(products, LAMBDA p :
        (p.name # last.name \/ p.version # last.version) /\ Declares(p, img))

Shared(img) == Len(OtherOwners(img)) > 0

ImageDeletes == SelectSeq(last.calls, LAMBDA c : c.api = "docker.delete_image")

DeletesOf(img) ==
    Cardinality({i \in 1..Len(ImageDeletes) :
                    ImageDeletes[i].args = <<img.name, img.version>>})

SharedNotices(img) ==
    {i \in 1..Len(last.out) :
        /\ last.out[i].kind = "shared_image"
        /\ last.out[i].subject = img.name \o ":" \o img.version}

TimesDeclared(p, img) == Cardinality({j \in 1..Len(docker_images(p)) : docker_images(p)[j] = img})

NeverDeletesShared ==
    \A i \in 1..Len(ImageDeletes) :
        ~ Shared(Image(ImageDeletes[i].args[1], ImageDeletes[i].args[2]))

\* C1 as stated: no image that another record declares is passed to delete_image,
\* and each shared image of the target gets exactly one notice, which lists every
\* other owning record as name-version in record-set order.
C1_OneNoticePerSharedImage ==
    RanOnLoaded("remove_product_docker_images") =>
        /\ NeverDeletesShared
        /\ \A img \in Range(docker_images(Target)) :
              Shared(img) =>
                /\ Cardinality(SharedNotices(img)) = 1
                /\ \A i \in SharedNotices(img) :
                      last.out[i].detail = Join(", ", Strs(OtherOwners(img)))

\* C1 amended: no image that another record declares is passed to delete_image,
\* and a shared image gets one notice for each time the target's docker list names
\* it, each listing every other owning record as name-version in record-set order.
C1_SharedImagesKept ==
    RanOnLoaded("remove_product_docker_images") =>
        /\ NeverDeletesShared
        /\ \A img \in Range(docker_images(Target)) :
              Shared(img) =>
                /\ Cardinality(SharedNotices(img)) = TimesDeclared(Target, img)
                /\ DeletesOf(img) = 0
                /\ \A i \in SharedNotices(img) :
                      last.out[i].detail = Join(", ", Strs(OtherOwners(img)))

\* Witness of C1: an image shared with two other records was kept and reported.
C1_Witness ==
    /\ RanOnLoaded("remove_product_docker_images")
    /\ \E img \in Range(docker_images(Target)) :
          /\ Len(OtherOwners(img)) = 2
          /\ Cardinality(SharedNotices(img)) = 1
          /\ DeletesOf(img) = 0
    /\ Len(ImageDeletes) > 0

\* C2 as stated: each image that only the target declares is passed to delete_image
\* exactly once, also when the target's docker list names it more than once.
C2_DeletedExactlyOnce ==
    RanOnLoaded("remove_product_docker_images") =>
        \A img \in Range(docker_images(Target)) : ~ Shared(img) => DeletesOf(img) = 1

\* C2 amended: each image that only the target declares is passed to delete_image
\* once for each time the target's docker list names it (once when it is named once).
C2_DeletedOncePerDeclaration ==
    RanOnLoaded("remove_product_docker_images") =>
        \A img \in Range(docker_images(Target)) :
            ~ Shared(img) => DeletesOf(img) = TimesDeclared(Target, img)

\* Witness of C2: an image named once by the target alone was deleted, and another
\* record declares an image of the same name in another version.
C2_Witness ==
    /\ RanOnLoaded("remove_product_docker_images")
    /\ \E img \in Range(docker_images(Target)) :
          /\ ~ Shared(img)
          /\ TimesDeclared(Target, img) = 1
          /\ DeletesOf(img) = 1
          /\ \E k \in 1..Len(products) :
                /\ products[k] # Target
                /\ \E j \in 1..Len(docker_images(products[k])) :
                      /\ docker_images(products[k])[j].name = img.name
                      /\ docker_images(products[k])[j].version # img.version

\* The target's images that no other record declares, in declaration order.
Unshared == SelectSeq(docker_images(Target), LAMBDA img : ~ Shared(img))

\* C4: every non-shared image of the target is passed to delete_image, in
\* declaration order, whatever the earlier deletions answered; the call ends with
\* the aggregate exception exactly when a deletion answered an HTTP error other
\* than 404, and returns normally otherwise.
C4_AllAttemptedThenAggregate ==
    RanOnLoaded("remove_product_docker_images") =>
        /\ Len(ImageDeletes) = Len(Unshared)
        /\ \A i \in 1..Len(ImageDeletes) :
              ImageDeletes[i].args = <<Unshared[i].name, Unshared[i].version>>
        /\ last.exc = "aggregate" <=>
              \E i \in 1..Len(ImageDeletes) : ImageDeletes[i].result = "error"
        /\ last.exc \in {"", "aggregate"}

\* Witness of C4: the first deletion failed, a later one found the image already
\* absent, and the call ended with the aggregate exception.
C4_Witness ==
    /\ RanOnLoaded("remove_product_docker_images")
    /\ Len(ImageDeletes) = 2
    /\ ImageDeletes[1].result = "error"
    /\ ImageDeletes[2].result = "404"
    /\ last.exc = "aggregate"

\* A 404 alone does not fail the call.
C4_Witness404 ==
    /\ RanOnLoaded("remove_product_docker_images")
    /\ \E i \in 1..Len(ImageDeletes) : ImageDeletes[i].result = "404"
    /\ last.exc = ""

\* The images of a record as the reference describes them.
ReferenceDockerImages(p) ==
    CASE p.docker.kind = "absent" ->
            << Image("cray/cray-" \o p.name, p.legacy) >>
      [] p.docker.kind = "null" \/ p.docker.items = << >> -> << >>
      [] OTHER ->
            [i \in 1..Len(p.docker.items) |->
                Image(p.docker.items[i].name, p.docker.items[i].version)]

AllSharedNotices == SelectSeq(last.out, LAMBDA n : n.kind = "shared_image")

\* C19: docker_images of every loaded record is the reference: without a 'docker'
\* key the one pair (cray/cray-<name>, component_versions[<name>]) with no version
\* when that key is absent, with a null or empty 'docker' key nothing, otherwise
\* the declared (name, version) pairs in declared order; and
\* remove_product_docker_images handles exactly these entries, each by a delete
\* call or a notice that it is shared.
C19_DockerImagesReference ==
    /\ \A k \in 1..Len(products) :
          docker_images(products[k]) = ReferenceDockerImages(products[k])
    /\ RanOnLoaded("remove_product_docker_images") =>
          /\ Len(ImageDeletes) + Len(AllSharedNotices) = Len(ReferenceDockerImages(Target))
          /\ \A i \in 1..Len(ImageDeletes) :
                \E j \in 1..Len(ReferenceDockerImages(Target)) :
                    ImageDeletes[i].args = << ReferenceDockerImages(Target)[j].name,
                                              ReferenceDockerImages(Target)[j].version >>

\* Witness of C19: the target has no 'docker' key and no version under its name,
\* another record has a null 'docker' key, and the one image cray/cray-sat without
\* version was passed to the delete call.
C19_Witness ==
    /\ RanOnLoaded("remove_product_docker_images")
    /\ Target.docker.kind = "absent"
    /\ Target.legacy = None
    /\ \E k \in 1..Len(products) : products[k].docker.kind = "null"
    /\ Len(ImageDeletes) = 1
    /\ ImageDeletes[1].args = <<"cray/cray-sat", None>>

---------------------------------------------------------------------------
(* Helm charts: catalogs that differ in their helm lists, chart listings   *)
(* that resolve all, some or none of them.                                 *)

ChartUniverse == {Chart("c", "1"), Chart("c", "2"), Chart("d", "1")}

ChartCatalogs ==
    {<< Rec("sat", "1", Null, None, h1, List(<< >>), TRUE),
        Rec("sat", "2", Null, None, h2, List(<< >>), TRUE) >> :
        h1 \in {Absent} \cup {List(s) : s \in SeqsUpTo(ChartUniverse, MaxCharts)},
        h2 \in {Absent} \cup {List(s) : s \in SeqsUpTo(ChartUniverse, 1)}}

ChartListings ==
    {<< Component("c", "1", "id1"), Component("c", "2", "id2"), Component("d", "1", "id3") >>,
     << Component("c", "2", "id2"), Component("d", "1", "id3") >>,
     << Component("c", "1", "id1"), Component("c", "1", "id4"), Component("d", "1", "id3") >>,
     << >>}

ChartListings_All ==
    << Component("c", "1", "id1"), Component("c", "2", "id2"), Component("d", "1", "id3") >>

\* What the ConfigMap named by constants.py holds when the catalog was built from another.
ElsewhereData ==
    {NoData,
     [kind |-> "map",
      entries |-> << Rec("sat", "1", Null, None, List(<< Chart("c", "1") >>), List(<< >>), TRUE),
                     Rec("sat", "2", Null, None, Null, List(<< >>), TRUE) >>]}

ChartTargets == {<<"sat", "1">>, <<"sat", "2">>, <<"cos", "2">>}

InitCharts ==
    /\ \E entries \in ChartCatalogs, listing \in ChartListings :
          \/ Constructed(DefaultId, entries, NoData, listing)
          \/ \E elsewhere \in ElsewhereData :
                Constructed(<<"mock-name", "mock-namespace">>, entries, elsewhere, listing)
    /\ dockerRegistry = {}
    /\ chartStore \in {{"id1", "id2", "id3", "id4"}, {"id2"}}
    /\ nexusRepos = {}
    /\ \E bad \in {{}, {"id1"}, {"id3"}}, infra \in {"", "k8s", "gateway"} :
          faulty = [NoFaults EXCEPT !.charts = bad,
                                    !.k8s = IF infra = "k8s" THEN "api" ELSE "",
                                    !.gateway = infra = "gateway"]

NextCharts == \E t \in ChartTargets : remove_helm_charts(t[1], t[2])

SpecCharts == InitCharts /\ [][NextCharts]_vars

---------------------------------------------------------------------------
(* Claims about remove_helm_charts.                                        *)

ChartDeletes == SelectSeq(last.calls, LAMBDA c : c.api = "components.delete")

\* The charts (name, version) of the listing's component `id`.
ChartsOfId(id) ==
    {Chart(nexus_charts[k].name, nexus_charts[k].version) :
        k \in {m \in 1..Len(nexus_charts) : nexus_charts[m].id = id}}

DeclaresChart(p, chart) == \E j \in 1..Len(helm_charts(p)) : helm_charts(p)[j] = chart

SharedChart(chart) ==
    \E k \in 1..Len(products) :
        /\ products[k].name # last.name \/ products[k].version # last.version
        /\ DeclaresChart(products[k], chart)

\* C3 as stated: a chart of the target that another record also declares is not
\* passed to the chart registry's delete call.
C3_SharedChartsKept ==
    RanOnLoaded("remove_helm_charts") =>
        \A i \in 1..Len(ChartDeletes) :
            \A chart \in ChartsOfId(ChartDeletes[i].args[1]) :
                DeclaresChart(Target, chart) => ~ SharedChart(chart)

\* The charts deleted in this call: deleted, or reported already absent.
DeletedThisCall ==
    UNION {ChartsOfId(ChartDeletes[i].args[1]) :
              i \in {k \in 1..Len(ChartDeletes) : ChartDeletes[k].result \in {"ok", "404"}}}

\* The registry entry of the target in the ConfigMap the catalog was built from.
CurrentEntry ==
    VersionEntries(k8sConfigMaps[<<self.name, self.namespace>>], last.name, last.version)[1]

\* C10 as stated, for the first call on a catalog built from the default ConfigMap:
\* the version data handed to the gateway is the current registry entry with exactly
\* the charts (name, version) deleted in this call removed from its helm list, every
\* other chart and every other field unchanged.
C10_ExactlyDeletedChartsRemoved ==
    ( /\ RanOnLoaded("remove_helm_charts")
      /\ nops = 1
      /\ <<self.name, self.namespace>> = DefaultId
      /\ last.exc = ""
      /\ Len(last.gateway) > 0 ) =>
        /\ DeletedThisCall # {}
        /\ last.gateway[1].content.kind = "version_data"
        /\ last.gateway[1].content.data =
              [CurrentEntry EXCEPT !.helm.items =
                  SelectSeq(@, LAMBDA c : Chart(c.name, c.version) \notin DeletedThisCall)]

\* C11 as stated: when a chart deletion failed with an error other than 404, every
\* resolved chart of the target was still attempted and the operation ended with an
\* exception.
C11_ChartFailureRaised ==
    ( /\ RanOnLoaded("remove_helm_charts")
      /\ \E i \in 1..Len(ChartDeletes) : ChartDeletes[i].result = "error" ) =>
        /\ Len(ChartDeletes) = Len(get_helm_chart_nexus_component_ids(Target))
        /\ last.exc # ""

\* Whether some component of the listing has the name and version of the chart.
Resolves(chart) ==
    \E k \in 1..Len(nexus_charts) :
        nexus_charts[k].name = chart.name /\ nexus_charts[k].version = chart.version

NoChartsNotices == SelectSeq(last.out, LAMBDA n : n.kind = "no_charts_to_remove")

\* C12: when no chart the target declares has a component in the chart listing,
\* remove_helm_charts prints exactly one 'no charts to remove' notice (the only
\* notice when the target declares charts), returns without exception, makes no
\* call to the chart registry, does not read the ConfigMap, does not run the
\* gateway, and leaves the chart registry, the list of deleted charts and the
\* environment as they were.
C12_NothingResolvedNothingDone ==
    [][ ( /\ last'.op = "remove_helm_charts"
          /\ nops' = nops + 1
          /\ get_product_exc(products, last'.name, last'.version) = ""
          /\ \A j \in 1..Len(helm_charts(get_product(products, last'.name, last'.version))) :
                ~ Resolves(helm_charts(get_product(products, last'.name, last'.version))[j]) ) =>
            /\ last'.exc = ""
            /\ last'.calls = << >>
            /\ last'.gateway = << >>
            /\ Len(SelectSeq(last'.out, LAMBDA n : n.kind = "no_charts_to_remove")) = 1
            /\ Len(helm_charts(get_product(products, last'.name, last'.version))) > 0
                  => Len(last'.out) = 1
            /\ UNCHANGED <<chartStore, helm_charts_deleted_nexus, environ, k8sConfigMaps,
                           products>> ]_vars

\* Witness of C12: the target declares two charts, the listing has a chart of the
\* same name in another version and the ConfigMap cannot be read, and the call
\* ended with the single notice.
C12_Witness ==
    /\ RanOnLoaded("remove_helm_charts")
    /\ nops = 1
    /\ Len(helm_charts(Target)) = 2
    /\ \A j \in 1..Len(helm_charts(Target)) : ~ Resolves(helm_charts(Target)[j])
    /\ \E k \in 1..Len(nexus_charts) : nexus_charts[k].name = helm_charts(Target)[1].name
    /\ faulty.k8s # ""
    /\ Len(NoChartsNotices) = 1
    /\ last.exc = ""

---------------------------------------------------------------------------
(* Repositories: catalogs that differ in their repositories lists, and a   *)
(* repository API that holds some of the repositories they name.           *)

MaxRepos == 2      \* length of a record's repositories list

RepoUniverse ==
    {GroupRepo("g", <<"h1">>), GroupRepo("k", <<"h1", "h2">>),
     HostedRepo("h1"), HostedRepo("h2")}

RepoCatalogs ==
    {<< Rec("sat", "1", Null, None, Absent, r1, TRUE),
        Rec("sat", "2", Null, None, Absent,
            List(<< GroupRepo("g", <<"h2">>), HostedRepo("h2") >>), TRUE) >> :
        r1 \in {Absent} \cup {List(s) : s \in SeqsUpTo(RepoUniverse, MaxRepos)}}

\* The repositories the API may hold before the first operation.
RepoEntries ==
    {RepoEntry("g", "group", TRUE, <<"h2">>), RepoEntry("k", "group", FALSE, <<"h2", "h1">>),
     RepoEntry("h1", "hosted", TRUE, << >>), RepoEntry("h2", "hosted", FALSE, << >>)}

RepoFaults ==
    {NoFaults} \cup {[NoFaults EXCEPT !.repoList = {n}] : n \in {"g", "k"}}
    \cup {[NoFaults EXCEPT !.repoUpdate = {n}] : n \in {"g", "k"}}
    \cup {[NoFaults EXCEPT !.repoDelete = {n}] : n \in {"h1", "h2"}}

RepoTargets == {<<"sat", "1">>, <<"sat", "2">>, <<"cos", "2">>}

InitRepos ==
    /\ \E entries \in RepoCatalogs : Constructed(DefaultId, entries, NoData, << >>)
    /\ dockerRegistry = {}
    /\ chartStore = {}
    /\ nexusRepos \in SUBSET RepoEntries
    /\ faulty \in RepoFaults

NextRepos ==
    \E t \in RepoTargets :
        \/ activate_product_hosted_repos(t[1], t[2])
        \/ uninstall_product_hosted_repos(t[1], t[2])

SpecRepos == InitRepos /\ [][NextRepos]_vars

---------------------------------------------------------------------------
(* Claims about activate_hosted_repos_in_group.                            *)

ListCalls == SelectSeq(last.calls, LAMBDA c : c.api = "repos.list")

UpdateCalls == SelectSeq(last.calls, LAMBDA c : c.api = "raw_group.update")

RepoNamed(name) == CHOOSE r \in nexusRepos : r.name = name

\* C5: after a successful activation every group repository the target declares
\* has exactly the declared member list, whatever its members were before, and the
\* update call for it passed the repository's own online flag, blobstore name and
\* strict-content-type-validation flag.
C5_MembersReplaced ==
    ( /\ RanOnLoaded("activate_product_hosted_repos")
      /\ last.exc = "" ) =>
        /\ Len(UpdateCalls) = Len(group_repositories(Target))
        /\ \A i \in 1..Len(group_repositories(Target)) :
              LET declared == group_repositories(Target)[i]
              IN  /\ \E r \in nexusRepos : r.name = declared.name
                  /\ RepoNamed(declared.name).members = declared.members
                  /\ UpdateCalls[i].members = declared.members
                  /\ UpdateCalls[i].args =
                        << declared.name,
                           Flag(RepoNamed(declared.name).online),
                           RepoNamed(declared.name).blobstore_name,
                           Flag(RepoNamed(declared.name).strict_content_type_validation) >>

\* Witness of C5: a group repository that had other members before now has the
\* two members the target declares.
C5_Witness ==
    /\ RanOnLoaded("activate_product_hosted_repos")
    /\ last.exc = ""
    /\ prev.op = ""
    /\ \E i \in 1..Len(group_repositories(Target)) :
          /\ group_repositories(Target)[i].name = "k"
          /\ RepoNamed("k").members = <<"h1", "h2">>
    /\ \E i \in 1..Len(group_repositories(Target)) :
          /\ group_repositories(Target)[i].name = "g"
          /\ RepoNamed("g").members = <<"h1">>

\* C6 as stated: an HTTP error on one group repository, while resolving it or while
\* updating it, does not end the loop: every group repository the target declares
\* is resolved, and the call ends normally or with the aggregate exception.
C6_EveryGroupAttempted ==
    ( /\ RanOnLoaded("activate_product_hosted_repos")
      /\ last.exc \notin {"TypeError", "repo_not_found", "multiple_repos"} ) =>
        /\ Len(ListCalls) = Len(group_repositories(Target))
        /\ last.exc \in {"", "aggregate"}

---------------------------------------------------------------------------
(* Claims about uninstall_hosted_repos.                                    *)

RepoDeletes == SelectSeq(last.calls, LAMBDA c : c.api = "repos.delete")

SameTarget(a, b) == a.op = b.op /\ a.name = b.name /\ a.version = b.version

\* C7: when uninstall_product_hosted_repos succeeded and is called again on the
\* same target, the second call succeeds, every deletion of it answers 404, and the
\* repositories the API holds are the same after it as before it.
C7_UninstallIdempotent ==
    [][ ( /\ last.op = "uninstall_product_hosted_repos"
          /\ last.exc = ""
          /\ SameTarget(last, last') ) =>
            /\ last'.exc = ""
            /\ \A i \in 1..Len(last'.calls) :
                  last'.calls[i].api = "repos.delete" /\ last'.calls[i].result = "404"
            /\ Len(last'.calls) = Len(last.calls)
            /\ nexusRepos' = nexusRepos ]_vars

\* Witness of C7: the first call removed two repositories, the second found both gone.
C7_Witness ==
    /\ SameTarget(prev, last)
    /\ RanOnLoaded("uninstall_product_hosted_repos")
    /\ prev.exc = ""
    /\ last.exc = ""
    /\ Len(prev.calls) = 2
    /\ \A i \in 1..Len(prev.calls) : prev.calls[i].result = "ok"
    /\ Len(last.calls) = 2
    /\ \A i \in 1..Len(last.calls) : last.calls[i].result = "404"

\* C8: one delete call for every name in hosted_repository_names(target) and no
\* other, whatever the earlier deletions answered; the call ends with the aggregate
\* exception exactly when a deletion answered an HTTP error other than 404.
C8_EachNameDeletedOnce ==
    ( /\ RanOnLoaded("uninstall_product_hosted_repos")
      /\ repositories_exc(Target) = "" ) =>
        /\ Len(last.calls) = Len(RepoDeletes)
        /\ Len(RepoDeletes) = Cardinality(hosted_repository_names(Target))
        /\ \A n \in hosted_repository_names(Target) :
              Cardinality({i \in 1..Len(RepoDeletes) : RepoDeletes[i].args = <<n>>}) = 1
        /\ last.exc = "aggregate" <=>
              \E i \in 1..Len(RepoDeletes) : RepoDeletes[i].result = "error"
        /\ last.exc \in {"", "aggregate"}

\* Witness of C8: the first deletion failed, the second went through, and the call
\* ended with the aggregate exception.
C8_Witness ==
    /\ RanOnLoaded("uninstall_product_hosted_repos")
    /\ Len(RepoDeletes) = 2
    /\ RepoDeletes[1].result = "error"
    /\ RepoDeletes[2].result = "ok"
    /\ last.exc = "aggregate"

\* The names a record can mention.
RepoNames == {"g", "k", "h0", "h1", "h2"}

\* The hosted repository names of a record as the reference describes them.
ReferenceHostedNames(p) ==
    {n \in RepoNames :
        \/ \E i \in 1..Len(p.repos.items) :
              p.repos.items[i].type = "hosted" /\ p.repos.items[i].name = n
        \/ \E i \in 1..Len(p.repos.items) :
              /\ p.repos.items[i].type = "group"
              /\ \E j \in 1..Len(p.repos.items[i].members) : p.repos.items[i].members[j] = n}

\* C18: hosted_repository_names of every loaded record with a repositories list is
\* the union of the names of its hosted repositories and the members of its group
\* repositories, each name once; uninstall_hosted_repos deletes exactly these names.
C18_HostedNamesAreUnion ==
    /\ \A k \in 1..Len(products) :
          products[k].repos.kind = "list" =>
              hosted_repository_names(products[k]) = ReferenceHostedNames(products[k])
    /\ ( /\ RanOnLoaded("uninstall_product_hosted_repos")
         /\ repositories_exc(Target) = "" ) =>
          /\ {RepoDeletes[i].args[1] : i \in 1..Len(RepoDeletes)} = ReferenceHostedNames(Target)
          /\ Len(RepoDeletes) = Cardinality(ReferenceHostedNames(Target))

\* Witness of C18: the target declares h1 as hosted and as a member of k, and h2
\* only as a member of k; h1 and h2 were deleted, each once.
C18_Witness ==
    /\ RanOnLoaded("uninstall_product_hosted_repos")
    /\ Target.repos.items = << GroupRepo("k", <<"h1", "h2">>), HostedRepo("h1") >>
    /\ Len(RepoDeletes) = 2
    /\ {RepoDeletes[i].args[1] : i \in 1..Len(RepoDeletes)} = {"h1", "h2"}

---------------------------------------------------------------------------
(* The catalog as a whole: a catalog like the one of tests/mocks.py, whose *)
(* records declare images, charts and repositories, under every operation. *)

MockCatalogs ==
    {<< Rec("sat", "1",
            List(<< Image("cray/cray-sat", "1"), Image("a", "1") >>), None,
            List(<< Chart("c", "1") >>),
            List(<< GroupRepo("g", <<"h1">>), HostedRepo("h1") >>), TRUE),
        Rec("sat", "2",
            List(<< Image("cray/cray-sat", "1") >>), None,
            List(<< Chart("c", "1"), Chart("d", "1") >>),
            List(<< GroupRepo("g", <<"h2">>), HostedRepo("h2") >>), TRUE),
        Rec("cos", "1", Absent, "1", Absent, repos, valid) >> :
        repos \in {Absent, List(<< HostedRepo("h1") >>)}, valid \in BOOLEAN}

MockFaults ==
    {NoFaults,
     [NoFaults EXCEPT !.docker = {Image("a", "1")}],
     [NoFaults EXCEPT !.charts = {"id1"}],
     [NoFaults EXCEPT !.repoUpdate = {"g"}],
     [NoFaults EXCEPT !.repoDelete = {"h1"}],
     [NoFaults EXCEPT !.gateway = TRUE]}

\* ("sat", "9") and ("cos", "2") are never loaded; ("cos", "1") is when it is valid.
MockTargets == {<<"sat", "1">>, <<"sat", "2">>, <<"sat", "9">>, <<"cos", "1">>, <<"cos", "2">>}

Init ==
    /\ \E entries \in MockCatalogs, listing \in {ChartListings_All, << >>} :
          Constructed(DefaultId, entries, NoData, listing)
    /\ dockerRegistry = ImageUniverse \cup {Image("cray/cray-cos", "1")}
    /\ chartStore \in {{"id1", "id3"}, {}}
    /\ nexusRepos \in {RepoEntries, RepoEntries \ {RepoEntry("h1", "hosted", TRUE, << >>)},
                      {r \in RepoEntries : r.type = "hosted"}, {}}
    /\ faulty \in MockFaults

Next ==
    \E t \in MockTargets :
        \/ remove_product_docker_images(t[1], t[2])
        \/ remove_helm_charts(t[1], t[2])
        \/ activate_product_hosted_repos(t[1], t[2])
        \/ uninstall_product_hosted_repos(t[1], t[2])

Spec == Init /\ [][Next]_vars

---------------------------------------------------------------------------
(* Claims about a (name, version) that is not in the record set.           *)

Operations ==
    {"remove_product_docker_images", "remove_helm_charts",
     "activate_product_hosted_repos", "uninstall_product_hosted_repos"}

Loaded(name, version) ==
    \E k \in 1..Len(products) : products[k].name = name /\ products[k].version = version

\* C9: an operation on a (name, version) that no loaded record has ends with the
\* not-found exception of get_product and makes no call to the image registry, the
\* chart registry, the repository API or the gateway; none of them changes.
C9_NotFoundMakesNoCall ==
    [][ \A op \in Operations :
          ( /\ last'.op = op
            /\ nops' = nops + 1
            /\ ~ Loaded(last'.name, last'.version) ) =>
              /\ last'.exc = "not_found"
              /\ last'.calls = << >>
              /\ last'.gateway = << >>
              /\ UNCHANGED <<dockerRegistry, chartStore, nexusRepos, environ,
                             helm_charts_deleted_nexus, products>> ]_vars

\* Witness of C9: each of the four operations has ended with not-found, on a version
\* of a product that has other versions loaded and on a record dropped as invalid.
C9_Witness ==
    /\ last.op = "remove_helm_charts"
    /\ last.name = "sat" /\ last.version = "9"
    /\ last.exc = "not_found"
    /\ prev.op = "remove_product_docker_images"
    /\ prev.name = "cos" /\ prev.version = "1"
    /\ prev.exc = "not_found"
    /\ \E k \in 1..Len(k8sConfigMaps[DefaultId].entries) :
          k8sConfigMaps[DefaultId].entries[k].name = "cos"

\* The repository operations end the same way.
C9_WitnessRepos ==
    /\ last.op = "uninstall_product_hosted_repos"
    /\ last.exc = "not_found"
    /\ prev.op = "activate_product_hosted_repos"
    /\ prev.exc = "not_found"
    /\ nexusRepos # {}

\* The calls the operations make to the repository API.
RepoApiCalls(op) ==
    SelectSeq(op.calls, LAMBDA c : c.api \notin {"docker.delete_image", "components.delete",
                                                 "read_namespaced_config_map"})

RepoNamesHeld(repos) == {r.name : r \in repos}

\* C20: no step of any operation adds a repository: the names the repository API
\* holds after the step are among those it held before, and the calls made to the
\* repository API are repos.list, raw_group.update and repos.delete only.
C20_NeverCreatesRepository ==
    [][ /\ RepoNamesHeld(nexusRepos') \subseteq RepoNamesHeld(nexusRepos)
        /\ \A i \in 1..Len(RepoApiCalls(last')) :
              RepoApiCalls(last')[i].api \in {"repos.list", "raw_group.update", "repos.delete"} ]_vars

\* Witness of C20: an uninstall deleted h1, the activation after it found its group
\* but could not put h1 into it, and h1 is still absent.
C20_Witness ==
    /\ last.op = "activate_product_hosted_repos"
    /\ last.exc = "aggregate"
    /\ prev.op = "uninstall_product_hosted_repos"
    /\ \E i \in 1..Len(prev.calls) : prev.calls[i].args = <<"h1">> /\ prev.calls[i].result = "ok"
    /\ ~ \E r \in nexusRepos : r.name = "h1"
    /\ \E r \in nexusRepos : r.name = "g"

\* Witness of C20: the group the target declares is absent and stays absent.
C20_WitnessGroupAbsent ==
    /\ last.op = "activate_product_hosted_repos"
    /\ last.exc = "repo_not_found"
    /\ \E r \in nexusRepos : r.name = "h2"
    /\ ~ \E r \in nexusRepos : r.name = "g"

---------------------------------------------------------------------------
(* ProductCatalog.__init__ as an operation: the ConfigMap holds one text   *)
(* per product, which the constructor decodes.                             *)

\* No ProductCatalog object exists (the constructor has not returned one).
NotConstructed == [name |-> "", namespace |-> ""]

\* The text of one product: `yaml` says what safe_load makes of it ("mapping": a
\* mapping of versions to data, "invalid": not YAML, such as a single tab,
\* "scalar": YAML that is not a mapping, such as a word or the empty text).
Text(product, yaml, versions) == [product |-> product, yaml |-> yaml, versions |-> versions]

\* The exceptions that are ProductInstallException.
ProductInstallExceptions ==
    {"kubeconfig_failed", "k8s_unreachable", "k8s_read_failed", "no_data",
     "nexus_list_failed", "load_failed"}

\* A variant of the mapping that keeps every pair of the text, repeated keys too.
MappingKeepsRepeatedKeys(pairs) == pairs

\* The mapping safe_load builds from the key: value pairs of a text: one item
\* per version key, at the place of the key's first pair and with the value of
\* its last pair.
mapping_items(pairs) ==
    LET n == Len(pairs)
        IsFirst(i) == \A j \in 1..(i - 1) : pairs[j].version # pairs[i].version
        LastOf(i) == CHOOSE j \in i..n :
                         /\ pairs[j].version = pairs[i].version
                         /\ \A k \in (j + 1)..n : pairs[k].version # pairs[i].version
        RECURSIVE From(_)
        From(i) == IF i > n THEN << >>
                   ELSE IF IsFirst(i) THEN << pairs[LastOf(i)] >> \o From(i + 1)
                   ELSE From(i + 1)
    IN From(1)

\* safe_load(product_versions).items(): YAMLError for text that is not YAML,
\* AttributeError when the value has no items().
safe_load_items(text) ==
    IF text.yaml = "invalid" THEN [exc |-> "YAMLError", versions |-> << >>]
    ELSE IF text.yaml # "mapping" THEN [exc |-> "AttributeError", versions |-> << >>]
    ELSE [exc |-> "", versions |-> mapping_items(text.versions)]

\* The list comprehension over config_map.data.items(): [exc, entries].
RECURSIVE DecodeTexts(_, _, _)
DecodeTexts(texts, i, entries) ==
    IF i > Len(texts) THEN [exc |-> "", entries |-> entries]
    ELSE IF safe_load_items(texts[i]).exc # ""
         THEN [exc |-> safe_load_items(texts[i]).exc, entries |-> << >>]
    ELSE DecodeTexts(texts, i + 1, entries \o safe_load_items(texts[i]).versions)

\* Mutant: every record is taken as valid.
IsValidAlways(p) == TRUE

\* Mutant: a record that declares images is kept even when it is not valid.
KeepsImageOwners(p) == is_valid(p) \/ Len(docker_images(p)) > 0

\* p.is_valid, where the filter of the constructor asks for it.
keeps(p) == is_valid(p)

\* nexus_api.components.list("charts"): the components the chart registry holds.
components_list(store) == SelectSeq(ChartListings_All, LAMBDA c : c.id \in store)

NexusCredentials == [NEXUS_USERNAME |-> "mock_username", NEXUS_PASSWORD |-> "mock_password"]

\* ProductCatalog(name, namespace)
__init__(name, namespace) ==
    LET secret_call == Call("read_namespaced_secret", <<"nexus-admin-credential", "nexus">>,
                            << >>, IF faulty.secret THEN "error" ELSE "ok")
        secret_out == IF faulty.secret THEN << Notice("secret_unreadable", "", "") >> ELSE << >>
        env2 == IF faulty.secret THEN environ ELSE EnvUpdate(environ, NexusCredentials)
        config_map == read_namespaced_config_map(name, namespace)
        read_call == Call("read_namespaced_config_map", <<name, namespace>>, << >>,
                          IF config_map.exc # "" THEN "error" ELSE "ok")
        list_call == Call("components.list", <<"charts">>, << >>,
                          IF faulty.components THEN "error" ELSE "ok")
        decoded == DecodeTexts(config_map.data.texts, 1, << >>)
        invalid_products == SelectSeq(decoded.entries, LAMBDA q : ~ keeps(q))
        invalid_out == IF Len(invalid_products) > 0
                       THEN << Notice("invalid_products", Join(", ", Strs(invalid_products)), "") >>
                       ELSE << >>
        failed(calls, out, exc) ==
            /\ last' = [Started("__init__", name, "") EXCEPT !.calls = calls, !.out = out,
                                                            !.exc = exc]
            /\ UNCHANGED <<self, products, nexus_charts>>
    IN  /\ self = NotConstructed
        /\ nops < MaxOps
        /\ nops' = nops + 1
        /\ prev' = last
        /\ IF faulty.kubeconfig
           THEN /\ failed(<< >>, << >>, "kubeconfig_failed")
                /\ UNCHANGED environ
           ELSE /\ environ' = env2
                /\ IF config_map.exc # ""
                   THEN failed(<<secret_call, read_call>>, secret_out,
                               IF config_map.exc = "retry" THEN "k8s_unreachable"
                               ELSE "k8s_read_failed")
                   ELSE IF config_map.data.kind = "none"
                   THEN failed(<<secret_call, read_call>>, secret_out, "no_data")
                   ELSE IF faulty.components
                   THEN failed(<<secret_call, read_call, list_call>>, secret_out,
                               "nexus_list_failed")
                   ELSE IF decoded.exc # ""
                   THEN failed(<<secret_call, read_call, list_call>>, secret_out,
                               IF decoded.exc = "YAMLError" THEN "load_failed"
                               ELSE decoded.exc)
                   ELSE /\ self' = [name |-> name, namespace |-> namespace]
                        /\ products' = SelectSeq(decoded.entries, keeps)
                        /\ nexus_charts' = components_list(chartStore)
                        /\ last' = [Started("__init__", name, "")
                                        EXCEPT !.calls = <<secret_call, read_call, list_call>>,
                                               !.out = secret_out \o invalid_out]
        /\ UNCHANGED <<k8sConfigMaps, helm_charts_deleted_nexus, dockerRegistry, chartStore,
                       nexusRepos, faulty>>

---------------------------------------------------------------------------
(* Loading: ConfigMaps whose texts decode, do not decode, or are missing.  *)

\* A text whose mapping writes the version key "1" twice, with different data.
RepeatedKeyText ==
    Text("sat", "mapping",
         << Rec("sat", "1", List(<< Image("cray/cray-sat", "1") >>), None, Absent,
                List(<< >>), TRUE),
            Rec("sat", "2", List(<< Image("cray/cray-sat", "1") >>), None, Absent,
                List(<< >>), TRUE),
            Rec("sat", "1", List(<< Image("cray/cray-sat", "2") >>), None, Absent,
                List(<< >>), TRUE) >>)

SatTexts ==
    {Text("sat", "mapping",
          << Rec("sat", "1", List(<< Image("cray/cray-sat", "1") >>), None, Absent,
                 List(<< >>), v1),
             Rec("sat", "2", List(<< Image("cray/cray-sat", "1") >>), None, Absent,
                 List(<< >>), v2) >>) : v1 \in BOOLEAN, v2 \in BOOLEAN}
    \cup {RepeatedKeyText}

CosTexts ==
    {Text("cos", "mapping", << Rec("cos", "1", Absent, "1", Absent, List(<< >>), v) >>) :
        v \in BOOLEAN}
    \cup {Text("cos", "invalid", << >>), Text("cos", "scalar", << >>)}

\* What a ConfigMap can hold: no data, an empty mapping, or texts in either order.
LoadData ==
    {NoData, [kind |-> "map", texts |-> << >>]}
    \cup {[kind |-> "map", texts |-> <<a, b>>] : a \in SatTexts, b \in CosTexts}
    \cup {[kind |-> "map", texts |-> <<b, a>>] : a \in SatTexts, b \in CosTexts}

LoadFaults ==
    {[NoFaults EXCEPT !.k8s = k, !.components = c, !.secret = x, !.kubeconfig = g] :
        k \in {"", "api", "retry"}, c \in BOOLEAN, x \in BOOLEAN, g \in BOOLEAN}

LoadTargets == {<<"sat", "1">>, <<"sat", "2">>, <<"cos", "1">>}

InitLoad ==
    /\ self = NotConstructed
    /\ \E d \in LoadData :
          k8sConfigMaps = [i \in ConfigMapIds |-> IF i = DefaultId THEN d ELSE NoData]
    /\ products = << >>
    /\ nexus_charts = << >>
    /\ helm_charts_deleted_nexus = << >>
    /\ environ = [v \in EnvVars |-> Unset]
    /\ dockerRegistry = ImageUniverse
    /\ chartStore \in {{"id1", "id3"}, {}}
    /\ nexusRepos = {}
    /\ faulty \in LoadFaults
    /\ last = NoOp
    /\ prev = NoOp
    /\ nops = 0

NextLoad ==
    \/ \E id \in ConfigMapIds : __init__(id[1], id[2])
    \/ \E t \in LoadTargets :
          /\ self # NotConstructed
          /\ remove_product_docker_images(t[1], t[2])

SpecLoad == InitLoad /\ [][NextLoad]_vars

---------------------------------------------------------------------------
(* Claims about ProductCatalog.__init__.                                   *)

\* The data the constructor read: the ConfigMap named by the call.
ReadOf(op) ==
    LET reads == SelectSeq(op.calls, LAMBDA c : c.api = "read_namespaced_config_map")
    IN  k8sConfigMaps[reads[1].args]

HasRead(op) == \E i \in 1..Len(op.calls) : op.calls[i].api = "read_namespaced_config_map"

\* The constructor obtained the chart listing.
Listed(op) ==
    \E i \in 1..Len(op.calls) : op.calls[i].api = "components.list" /\ op.calls[i].result = "ok"

\* C13 as stated: when the ConfigMap was read, the chart listing was obtained and
\* some product's text does not decode to a mapping of versions, the constructor
\* ends with the 'Failed to load ConfigMap data' ProductInstallException and there
\* is no catalog and no record list.
C13_UndecodableTextFailsLoad ==
    ( /\ last.op = "__init__"
      /\ Listed(last)
      /\ \E i \in 1..Len(ReadOf(last).texts) : ReadOf(last).texts[i].yaml # "mapping" ) =>
        /\ last.exc = "load_failed"
        /\ self = NotConstructed
        /\ products = << >>

\* The part of C13 that holds: a text that is not YAML at all, before any text
\* that is YAML but not a mapping, ends the constructor with 'Failed to load
\* ConfigMap data' and no catalog.
C13_InvalidYamlFailsLoad ==
    ( /\ last.op = "__init__"
      /\ Listed(last)
      /\ \E i \in 1..Len(ReadOf(last).texts) :
            /\ ReadOf(last).texts[i].yaml = "invalid"
            /\ \A j \in 1..(i - 1) : ReadOf(last).texts[j].yaml = "mapping" ) =>
        /\ last.exc = "load_failed"
        /\ self = NotConstructed
        /\ products = << >>

\* C14 as stated: when the ConfigMap cannot be reached, the read is rejected, or
\* the ConfigMap holds no data (none, or an empty mapping), the constructor ends
\* with a ProductInstallException and there is no catalog.
C14_UnavailableRegistryFailsLoad ==
    ( /\ last.op = "__init__"
      /\ HasRead(last)
      /\ \/ faulty.k8s # ""
         \/ ReadOf(last).kind = "none"
         \/ ReadOf(last).texts = << >> ) =>
        /\ last.exc \in ProductInstallExceptions
        /\ self = NotConstructed
        /\ products = << >>

\* The part of C14 that holds: unreachable, rejected, or data that is None.
C14_UnreadableOrNoneFailsLoad ==
    ( /\ last.op = "__init__"
      /\ HasRead(last)
      /\ faulty.k8s # "" \/ ReadOf(last).kind = "none" ) =>
        /\ last.exc \in {"k8s_unreachable", "k8s_read_failed", "no_data"}
        /\ self = NotConstructed
        /\ products = << >>

\* The records the constructor decoded, in registry order.
DecodedOf(op) == DecodeTexts(ReadOf(op).texts, 1, << >>).entries

Rejected(op) == SelectSeq(DecodedOf(op), LAMBDA q : ~ q.valid)

InvalidNotices(op) == SelectSeq(op.out, LAMBDA n : n.kind = "invalid_products")

\* C15: after a construction that succeeded, the record list is exactly the
\* schema-valid records of the registry in registry order (so no record in it is
\* invalid and invalid records did not fail the load), and the notices hold one
\* notice of rejected records, listing all of them as name-version in registry
\* order, when some record was rejected and none otherwise.
C15_OnlyValidRecordsKept ==
    ( /\ last.op = "__init__"
      /\ last.exc = "" ) =>
        /\ self # NotConstructed
        /\ \A k \in 1..Len(products) : products[k].valid
        /\ products = SelectSeq(DecodedOf(last), LAMBDA q : q.valid)
        /\ Len(InvalidNotices(last)) = (IF Len(Rejected(last)) > 0 THEN 1 ELSE 0)
        /\ \A i \in 1..Len(InvalidNotices(last)) :
              InvalidNotices(last)[i].subject =
                  Join(", ", [k \in 1..Len(Rejected(last)) |->
                                 Rejected(last)[k].name \o "-" \o Rejected(last)[k].version])

\* Witness of C15: two of three decoded records were rejected, in one notice, and
\* the third is the record list.
C15_Witness ==
    /\ last.op = "__init__"
    /\ last.exc = ""
    /\ Len(DecodedOf(last)) = 3
    /\ Len(products) = 1
    /\ products[1].name = "sat" /\ products[1].version = "2"
    /\ Len(InvalidNotices(last)) = 1
    /\ InvalidNotices(last)[1].subject = "cos-1, sat-1"

---------------------------------------------------------------------------
(* The gateway operations: catalogs built from either ConfigMap, an        *)
(* executable that exits with zero or not.                                 *)

EntryCatalog ==
    << Rec("sat", "1", Null, None, List(<< Chart("c", "1") >>), List(<< >>), TRUE),
       Rec("sat", "2", Null, None, Absent, List(<< >>), TRUE) >>

\* (name, version) arguments: loaded, not loaded, and the names of the tests.
EntryTargets == {<<"sat", "1">>, <<"sat", "9">>, <<"mock_name", "mock_version">>}

\* Values of updated_product_data.
ProductDataChoices ==
    {EntryCatalog[1], [EntryCatalog[1] EXCEPT !.helm = List(<< >>)]}

InitEntries ==
    /\ \E id \in ConfigMapIds : Constructed(id, EntryCatalog, NoData, ChartListings_All)
    /\ dockerRegistry = {}
    /\ chartStore \in {{"id1"}, {}}
    /\ nexusRepos = {}
    /\ faulty \in {NoFaults, [NoFaults EXCEPT !.gateway = TRUE]}

NextEntries ==
    \E t \in EntryTargets :
        \/ activate_product_entry(t[1], t[2])
        \/ remove_product_entry(t[1], t[2])
        \/ \E d \in ProductDataChoices : call_update_product_data(t[1], t[2], d)
        \/ remove_helm_charts(t[1], t[2])

SpecEntries == InitEntries /\ [][NextEntries]_vars

---------------------------------------------------------------------------
(* Claims about the gateway operations.                                    *)

EntryOperations == {"remove_product_entry", "activate_product_entry", "update_product_data"}

\* C16: each of remove_product_entry, activate_product_entry and
\* update_product_data runs its executable once, returns normally exactly when the
\* executable exited with zero, ends with the ProductInstallException whose message
\* names the product and version (as name-version) when it did not, and leaves the
\* record set as it was in both cases.
C16_SuccessIffExitZero ==
    [][ ( /\ last'.op \in EntryOperations
          /\ nops' = nops + 1 ) =>
            /\ Len(last'.gateway) = 1
            /\ (last'.exc = "") <=> (last'.gateway[1].exit = 0)
            /\ last'.exc # "" =>
                  last'.exc \in {ErrorActivating(last'.name, last'.version),
                                 ErrorRemoving(last'.name, last'.version)}
            /\ last'.op = "remove_product_entry" /\ last'.exc # "" =>
                  last'.exc = ErrorRemoving(last'.name, last'.version)
            /\ UNCHANGED products ]_vars

\* Witness of C16: an activation failed on a non-zero exit after a removal failed
\* the same way, and the two records are still loaded.
C16_Witness ==
    /\ last.op = "activate_product_entry"
    /\ last.gateway[1].exit # 0
    /\ last.exc = "Error activating sat-1 in product catalog"
    /\ prev.op = "remove_product_entry"
    /\ prev.exc = "Error removing sat-1 from product catalog"
    /\ Len(products) = 2

\* Witness of C16, success: update_product_data returned normally on exit zero.
C16_WitnessSuccess ==
    /\ last.op = "update_product_data"
    /\ last.gateway[1].exit = 0
    /\ last.exc = ""

\* C17: in every run of an executable, PRODUCT and PRODUCT_VERSION are the
\* arguments of the operation, CONFIG_MAP and CONFIG_MAP_NS the name and namespace
\* the catalog was constructed with, and VALIDATE_SCHEMA is 'true'; for
\* activate_product_entry SET_ACTIVE_VERSION is 'true' and YAML_CONTENT names the
\* file staged with {active: true}; remove_product_entry runs catalog_delete and
\* stages nothing.
C17_EnvironmentOfEveryRun ==
    \A i \in 1..Len(last.gateway) :
        LET run == last.gateway[i]
        IN  /\ run.env.PRODUCT = last.name
            /\ run.env.PRODUCT_VERSION = last.version
            /\ run.env.CONFIG_MAP = self.name
            /\ run.env.CONFIG_MAP_NS = self.namespace
            /\ run.env.VALIDATE_SCHEMA = "true"
            /\ last.op = "activate_product_entry" =>
                  /\ run.exe = "catalog_update"
                  /\ run.env.SET_ACTIVE_VERSION = "true"
                  /\ run.env.YAML_CONTENT = "temporary_file"
                  /\ run.content = [kind |-> "active", data |-> TRUE]
            /\ last.op = "remove_product_entry" =>
                  /\ run.exe = "catalog_delete"
                  /\ run.content = [kind |-> "none"]
            /\ last.op \in {"update_product_data", "remove_helm_charts"} =>
                  run.exe = "catalog_update"

\* Witness of C17: on a catalog built from another ConfigMap than the default one,
\* an activation ran after a removal, for arguments that are not a loaded record.
C17_Witness ==
    /\ last.op = "activate_product_entry"
    /\ last.name = "mock_name" /\ last.version = "mock_version"
    /\ Len(last.gateway) = 1
    /\ last.gateway[1].env.CONFIG_MAP = "mock-name"
    /\ last.gateway[1].env.CONFIG_MAP_NS = "mock-namespace"
    /\ prev.op = "remove_product_entry"
    /\ prev.name = "sat"
    /\ Len(prev.gateway) = 1
    /\ prev.gateway[1].exe = "catalog_delete"

---------------------------------------------------------------------------
(* Uniqueness of (name, version) in a constructed catalog.                 *)

\* A text of the ConfigMap read by op writes some version key more than once.
RepeatsKey(op) ==
    \E t \in 1..Len(ReadOf(op).texts) :
        LET pairs == ReadOf(op).texts[t].versions
        IN  \E i \in 1..Len(pairs) : \E j \in 1..Len(pairs) :
                i < j /\ pairs[i].version = pairs[j].version

UniqueRecords ==
    \A i \in 1..Len(products) : \A j \in 1..Len(products) :
        (products[i].name = products[j].name /\ products[i].version = products[j].version)
            => i = j

\* C21 as stated: in a constructed catalog no two records share (name, version)
\* and no lookup ends with 'Multiple installed products'; and a construction that
\* read a registry whose text repeats a version key fails.
C21_DuplicatesFailConstruction ==
    /\ self # NotConstructed =>
          /\ UniqueRecords
          /\ \A t \in LoadTargets : get_product_exc(products, t[1], t[2]) # "multiple"
    /\ (last.op = "__init__" /\ Listed(last) /\ RepeatsKey(last)) => last.exc # ""

\* C21: in a constructed catalog no two records share (name, version), and no
\* lookup and no operation ends with 'Multiple installed products'; a text that
\* repeats a version key does not fail the construction: the key yields one
\* record, with the data of its last pair.
C21_RecordsUnique ==
    /\ self # NotConstructed =>
          /\ UniqueRecords
          /\ \A t \in LoadTargets : get_product_exc(products, t[1], t[2]) # "multiple"
          /\ last.exc # "multiple"
    /\ (last.op = "__init__" /\ last.exc = "" /\ RepeatsKey(last)) =>
          \A k \in 1..Len(products) :
              products[k].name = "sat" /\ products[k].version = "1" =>
                  docker_images(products[k]) = << Image("cray/cray-sat", "2") >>

C21_Witness ==
    /\ last.op = "__init__"
    /\ last.exc = ""
    /\ RepeatsKey(last)
    /\ Len(products) = 3
    /\ Loaded("sat", "1") /\ Loaded("sat", "2") /\ Loaded("cos", "1")
    /\ get_product_exc(products, "sat", "1") = ""

---------------------------------------------------------------------------
(* Repository names: catalogs whose group repositories are named with a    *)
(* "." and a repository API that holds repositories of similar names.      *)

NameCatalogs ==
    {<< Rec("sat", "1", Null, None, Absent, List(r1), TRUE) >> :
        r1 \in {<< GroupRepo("g.1", <<"h1">>) >>,
                << GroupRepo("g-1", <<"h1">>) >>,
                << GroupRepo("g.1", <<"h1">>), GroupRepo("g-1", <<"h2">>) >>,
                << GroupRepo("g-1", <<"h2">>), GroupRepo("g.1", <<"h1">>) >>}}

NameEntries ==
    {RepoEntry("g.1", "group", TRUE, <<"h2">>), RepoEntry("g-1", "group", FALSE, <<"h2">>),
     RepoEntry("h1", "hosted", TRUE, << >>), RepoEntry("h2", "hosted", FALSE, << >>)}

NameFaults ==
    {NoFaults, [NoFaults EXCEPT !.repoList = {"g.1"}], [NoFaults EXCEPT !.repoUpdate = {"g-1"}]}

NameTargets == {<<"sat", "1">>, <<"sat", "9">>}

InitRepoNames ==
    /\ \E entries \in NameCatalogs : Constructed(DefaultId, entries, NoData, << >>)
    /\ dockerRegistry = {}
    /\ chartStore = {}
    /\ nexusRepos \in SUBSET NameEntries
    /\ faulty \in NameFaults

NextRepoNames ==
    \E t \in NameTargets :
        \/ activate_product_hosted_repos(t[1], t[2])
        \/ uninstall_product_hosted_repos(t[1], t[2])

SpecRepoNames == InitRepoNames /\ [][NextRepoNames]_vars

\* The repositories the API holds under exactly this name.
ExactlyNamed(name) == {r \in nexusRepos : r.name = name}

\* The declared group repositories whose lookup is the call at place c.
LookedUpAt(c) ==
    {g \in Range(group_repositories(Target)) :
        last.calls[c].args = << "^" \o g.name \o "$" >>}

\* C22 as stated: in an activation, a lookup the API answered for a declared
\* group repository whose exact name no repository has ends the operation with
\* the not-found exception, one whose exact name several repositories have ends
\* it with the ambiguous exception, and in both cases the lookup is the last
\* call: no member update follows it.
C22_ExactNameOrFail ==
    RanOnLoaded("activate_product_hosted_repos") =>
        \A c \in 1..Len(last.calls) :
            (last.calls[c].api = "repos.list" /\ last.calls[c].result = "ok") =>
                \A g \in LookedUpAt(c) :
                    /\ Cardinality(ExactlyNamed(g.name)) = 0 =>
                          (last.exc = "repo_not_found" /\ c = Len(last.calls))
                    /\ Cardinality(ExactlyNamed(g.name)) > 1 =>
                          (last.exc = "multiple_repos" /\ c = Len(last.calls))

---------------------------------------------------------------------------
(* The environment of catalog_update across operations.                    *)

\* C23 as stated: whatever gateway operations ran before it, the catalog_update
\* run of activate_product_entry sees an environment in which UPDATE_OVERWRITE is
\* not set, so the staged {'active': True} is merged and never replaces the data.
C23_ActivateNeverOverwrites ==
    last.op = "activate_product_entry" =>
        \A i \in 1..Len(last.gateway) : last.gateway[i].env.UPDATE_OVERWRITE = Unset

---------------------------------------------------------------------------
(* Sequences of remove_helm_charts calls.                                  *)

\* The registry entry of the target as the call read it.
EntryRead ==
    LET reads == SelectSeq(last.calls, LAMBDA c : c.api = "read_namespaced_config_map")
    IN  VersionEntries(k8sConfigMaps[reads[1].args], last.name, last.version)[1]

Occurrences(chart, charts) == Cardinality({i \in 1..Len(charts) : charts[i] = chart})

\* The charts the call removed from the entry: those the version data handed to
\* the gateway holds fewer times than the entry read.
RemovedFromEntry ==
    {chart \in Range(EntryRead.helm.items) :
        Occurrences(chart, last.gateway[1].content.data.helm.items)
            < Occurrences(chart, EntryRead.helm.items)}

\* C24 as stated: in any sequence of remove_helm_charts calls, a chart that a
\* call removes from the registry entry of its target is a chart that the same
\* call deleted from the chart store (here: at least a chart of the same name,
\* the key the entry's list is edited by).
C24_OnlyThisCallsChartsRemoved ==
    (RanOnLoaded("remove_helm_charts") /\ Len(last.gateway) > 0) =>
        \A chart \in RemovedFromEntry :
            \E d \in DeletedThisCall : d.name = chart.name

---------------------------------------------------------------------------
(* The record set after construction: entry removal, chart removal and     *)
(* image removal on one instance.                                          *)

StaleFaults ==
    {NoFaults, [NoFaults EXCEPT !.gateway = TRUE], [NoFaults EXCEPT !.charts = {"id1"}]}

StaleTargets == {<<"sat", "1">>, <<"sat", "2">>, <<"sat", "9">>}

InitStale ==
    /\ \E entries \in MockCatalogs : Constructed(DefaultId, entries, NoData, ChartListings_All)
    /\ dockerRegistry = ImageUniverse \cup {Image("cray/cray-cos", "1")}
    /\ chartStore \in {{"id1", "id3"}, {}}
    /\ nexusRepos = {}
    /\ faulty \in StaleFaults

NextStale ==
    \E t \in StaleTargets :
        \/ remove_product_entry(t[1], t[2])
        \/ remove_helm_charts(t[1], t[2])
        \/ remove_product_docker_images(t[1], t[2])

SpecStale == InitStale /\ [][NextStale]_vars

\* The operation that just ended removed the entry or the charts of a loaded
\* (name, version) and returned normally.
RemovedEarlier ==
    /\ last.op \in {"remove_product_entry", "remove_helm_charts"}
    /\ last.exc = ""
    /\ Loaded(last.name, last.version)

\* C25: no step of any operation changes the record set; after a successful
\* remove_product_entry or remove_helm_charts on (P, V) the instance still
\* resolves (P, V) to the same record, and an image removal for another record
\* that follows still treats (P, V) as an owner: it deletes no image that (P, V)
\* declares.
C25_RecordsNeverChange ==
    [][ /\ products' = products
        /\ ( /\ nops' = nops + 1
             /\ last'.op \in {"remove_product_entry", "remove_helm_charts"}
             /\ last'.exc = ""
             /\ Loaded(last'.name, last'.version) ) =>
               /\ get_product_exc(products', last'.name, last'.version) = ""
               /\ get_product(products', last'.name, last'.version)
                     = get_product(products, last'.name, last'.version)
        /\ ( /\ nops' = nops + 1
             /\ RemovedEarlier
             /\ last'.op = "remove_product_docker_images"
             /\ <<last'.name, last'.version>> # <<last.name, last.version>> ) =>
               \A i \in 1..Len(last'.calls) :
                   last'.calls[i].api = "docker.delete_image" =>
                       \A j \in 1..Len(docker_images(Target)) :
                           last'.calls[i].args # << docker_images(Target)[j].name,
                                                   docker_images(Target)[j].version >>
      ]_vars

C25_Witness ==
    /\ last.op = "remove_product_docker_images"
    /\ last.name = "sat" /\ last.version = "2"
    /\ last.exc = ""
    /\ prev.op = "remove_product_entry"
    /\ prev.name = "sat" /\ prev.version = "1"
    /\ prev.exc = ""
    /\ Loaded("sat", "1")
    /\ Cardinality(SharedNotices(Image("cray/cray-sat", "1"))) = 1
    /\ Image("cray/cray-sat", "1") \in dockerRegistry

C25_WitnessCharts ==
    /\ last.op = "remove_product_docker_images"
    /\ last.name = "sat" /\ last.version = "2"
    /\ prev.op = "remove_helm_charts"
    /\ prev.name = "sat" /\ prev.version = "1"
    /\ prev.exc = ""
    /\ Len(prev.gateway) = 1
    /\ get_product_exc(products, "sat", "1") = ""
    /\ Image("cray/cray-sat", "1") \in dockerRegistry

---------------------------------------------------------------------------
(* Resolution of declared charts to components of the chart listing.       *)

\* The places of p's declared charts that have a component of the same name and
\* version in the listing.
MatchedPlaces(p) == {j \in 1..Len(helm_charts(p)) : Resolves(helm_charts(p)[j])}

\* The k-th matched place, counting in declaration order.
MatchedPlace(p, k) ==
    CHOOSE j \in MatchedPlaces(p) : Cardinality({m \in MatchedPlaces(p) : m <= j}) = k

\* The id of the earliest component of the listing with the chart's name and version.
EarliestId(chart) ==
    LET hits == {k \in 1..Len(nexus_charts) :
                    nexus_charts[k].name = chart.name /\ nexus_charts[k].version = chart.version}
    IN  nexus_charts[CHOOSE k \in hits : \A m \in hits : k <= m].id

\* C26: for every loaded record, get_helm_chart_nexus_component_ids yields one
\* triple per declared chart that has a component of identical name and version,
\* in declaration order, with the id of the first such component; a declared
\* chart without such a component yields no triple; and remove_helm_charts passes
\* to the chart registry's delete exactly the ids of the triples, in that order.
C26_TriplesOfMatchedCharts ==
    /\ \A r \in 1..Len(products) :
          LET p == products[r]
              triples == get_helm_chart_nexus_component_ids(p)
          IN  /\ Len(triples) = Cardinality(MatchedPlaces(p))
              /\ \A k \in 1..Len(triples) :
                    LET chart == helm_charts(p)[MatchedPlace(p, k)]
                    IN  triples[k] = [name |-> chart.name, version |-> chart.version,
                                      id |-> EarliestId(chart)]
    /\ RanOnLoaded("remove_helm_charts") =>
          /\ Len(ChartDeletes) = Cardinality(MatchedPlaces(Target))
          /\ \A k \in 1..Len(ChartDeletes) :
                ChartDeletes[k].args
                    = << EarliestId(helm_charts(Target)[MatchedPlace(Target, k)]) >>

C26_Witness ==
    /\ RanOnLoaded("remove_helm_charts")
    /\ helm_charts(Target) = << Chart("c", "2"), Chart("c", "1") >>
    /\ nexus_charts = << Component("c", "1", "id1"), Component("c", "1", "id4"),
                         Component("d", "1", "id3") >>
    /\ Len(ChartDeletes) = 1
    /\ ChartDeletes[1].args = << "id1" >>

C26_WitnessOrder ==
    /\ RanOnLoaded("remove_helm_charts")
    /\ helm_charts(Target) = << Chart("d", "1"), Chart("c", "1") >>
    /\ Len(ChartDeletes) = 2
    /\ ChartDeletes[1].args = << "id3" >>
    /\ ChartDeletes[2].args = << "id1" >>

---------------------------------------------------------------------------
(* Image removal on a catalog whose registry held rejected records.        *)

\* The schema-valid records of the registry the constructor read, other than the
\* target of the operation that just ended, in registry order.
ValidOthers ==
    SelectSeq(DecodedOf(prev),
              LAMBDA q : is_valid(q) /\ (q.name # last.name \/ q.version # last.version))

ValidOwners(img) == SelectSeq(ValidOthers, LAMBDA q : Declares(q, img))

\* C27: in remove_product_docker_images the other records are exactly the
\* schema-valid records of the registry other than the target; an image of the
\* target that no such record declares is passed to delete and not reported as
\* shared, also when a rejected record declares it; and a shared notice names
\* only schema-valid records.
C27_OnlyValidRecordsShare ==
    (RanOnLoaded("remove_product_docker_images") /\ prev.op = "__init__") =>
        /\ other_products(products, Target) = ValidOthers
        /\ \A img \in Range(docker_images(Target)) :
              /\ Len(ValidOwners(img)) = 0 =>
                    (DeletesOf(img) >= 1 /\ SharedNotices(img) = {})
              /\ \A i \in SharedNotices(img) :
                    last.out[i].detail = Join(", ", Strs(ValidOwners(img)))

C27_Witness ==
    /\ RanOnLoaded("remove_product_docker_images")
    /\ prev.op = "__init__"
    /\ last.name = "sat" /\ last.version = "2"
    /\ \E k \in 1..Len(Rejected(prev)) :
          /\ Rejected(prev)[k].name = "sat" /\ Rejected(prev)[k].version = "1"
          /\ Declares(Rejected(prev)[k], Image("cray/cray-sat", "1"))
    /\ Declares(Target, Image("cray/cray-sat", "1"))
    /\ DeletesOf(Image("cray/cray-sat", "1")) = 1
    /\ Image("cray/cray-sat", "1") \notin dockerRegistry

---------------------------------------------------------------------------
(* The ConfigMap remove_helm_charts reads and the one it writes.           *)

ConfigMapReads == SelectSeq(last.calls, LAMBDA c : c.api = "read_namespaced_config_map")

\* C28 as stated: whatever name and namespace the catalog was constructed with,
\* remove_helm_charts reads the entry from that ConfigMap, the one that
\* update_product_data then writes to.
C28_ReadsTheCatalogsConfigMap ==
    RanOnLoaded("remove_helm_charts") =>
        /\ \A i \in 1..Len(ConfigMapReads) :
              ConfigMapReads[i].args = << self.name, self.namespace >>
        /\ \A i \in 1..Len(last.gateway) :
              \A j \in 1..Len(ConfigMapReads) :
                  ConfigMapReads[j].args = << last.gateway[i].env.CONFIG_MAP,
                                             last.gateway[i].env.CONFIG_MAP_NS >>

---------------------------------------------------------------------------
(* Records without a 'repositories' key.                                   *)

RepoOperations == {"activate_product_hosted_repos", "uninstall_product_hosted_repos"}

\* C29 as stated: for a loaded record whose component data has no 'repositories'
\* key, activate_product_hosted_repos and uninstall_product_hosted_repos return
\* without an exception and make no call to the repository API, the record's
\* group repositories and hosted repository names being empty.
C29_NoRepositoriesKeyIsEmpty ==
    \A op \in RepoOperations :
        (RanOnLoaded(op) /\ Target.repos.kind = "absent") =>
            /\ last.exc = ""
            /\ repositories_exc(Target) = ""
            /\ RepoApiCalls(last) = << >>

---------------------------------------------------------------------------
(* What uninstall_hosted_repos changes in the repository API.              *)

\* The hosted repository names some record other than the target declares.
NamesOfOthers ==
    UNION {hosted_repository_names(products[k]) :
              k \in {m \in 1..Len(products) :
                        /\ products[m].repos.kind # "absent"
                        /\ products[m].name # last.name \/ products[m].version # last.version}}

\* C30: a step of uninstall_product_hosted_repos on a loaded record changes the
\* repository API only by removing repositories whose names are among the
\* target's hosted repository names: every repository that remains is as it was,
\* member lists included, the only calls are deletions of those names, one per
\* name, and a name another record also declares is deleted like any other.
C30_OnlyDeletesNamedRepos ==
    [][ ( /\ last'.op = "uninstall_product_hosted_repos"
          /\ nops' = nops + 1
          /\ get_product_exc(products, last'.name, last'.version) = ""
          /\ repositories_exc(get_product(products, last'.name, last'.version)) = "" ) =>
            LET names == hosted_repository_names(
                             get_product(products, last'.name, last'.version))
            IN  /\ nexusRepos' \subseteq nexusRepos
                /\ \A r \in nexusRepos \ nexusRepos' : r.name \in names
                /\ Len(last'.calls) = Cardinality(names)
                /\ \A i \in 1..Len(last'.calls) :
                      /\ last'.calls[i].api = "repos.delete"
                      /\ last'.calls[i].args[1] \in names
                /\ \A n \in names :
                      n \notin faulty.repoDelete => ~ \E r \in nexusRepos' : r.name = n
      ]_vars

C30_Witness ==
    /\ RanOnLoaded("uninstall_product_hosted_repos")
    /\ last.exc = ""
    /\ \E i \in 1..Len(last.calls) :
          last.calls[i].args = << "h2" >> /\ last.calls[i].result = "ok"
    /\ "h2" \in NamesOfOthers
    /\ ~ \E r \in nexusRepos : r.name = "h2"
    /\ \E r \in nexusRepos : r.type = "group" /\ "h2" \in Range(r.members)

=============================================================================
